---- MODULE Spec2Model ----
(***************************************************************************)
(* Campus chat backend: identity provisioning, the virtual-id codec,       *)
(* auto groups and the conversation store, modelled from                   *)
(* server/storage.ts (DatabaseStorage), server/routes.ts and               *)
(* server/services/AutoGroupService.                                       *)
(*                                                                         *)
(* The relational store is modelled as its tables:                         *)
(*   identities     comm_chat_identities, a set of rows (id is the key)    *)
(*   conversations  comm_conversations, a set of rows (id is the key)      *)
(*   participants   comm_participants, a bag of rows                       *)
(*   messages       comm_messages, a set of rows (id is the key)           *)
(*   updatedAt      the updatedAt column of comm_conversations             *)
(*   online         the isOnline column of comm_chat_identities            *)
(* and the websocket hub as clients (its sockets) and inbox (what          *)
(* notifyList sent).                                                       *)
(* Auto-increment keys are the counters nextIdentityId and                 *)
(* nextConversationId.  The students / staff tables of the academic        *)
(* records database are read-only here (StudentIds, StaffIds).             *)
(*                                                                         *)
(* Several specifications share these variables:                           *)
(*   SpecCodec     the virtual-id encoder and decoder as pure functions    *)
(*   SpecResolve   identity provisioning, one handler at a time            *)
(*   SpecProvision identity provisioning, handlers interleaved at awaits   *)
(*   Spec          the conversation store, one handler at a time           *)
(*   SpecRace      createDirect / ensureGroupAndJoin interleaved at awaits *)
(*   SpecRoles     removal and role changes, one handler at a time         *)
(*   SpecMessages  create, edit and delete of messages as time passes      *)
(*   SpecSearch    create, search and removal, one handler at a time       *)
(*   SpecFanout    POST messages.create interleaved at its awaits          *)
(*   SpecPresence  websocket connect, close, pong and heartbeat            *)
(*   SpecHub       notifyList, typing and call messages of the sockets     *)
(*   SpecLogin     logins and role changes by an administrator             *)
(*   SpecSync      syncStudent, syncStaff and provisioning calls           *)
(*   SpecForbidden the handlers that answer 403, one request at a time     *)
(*   SpecStore     every entry point that writes participant rows          *)
(*   SpecRows      participant rows under add, remove and role changes     *)
(*   SpecDeliver   POST messages.create with sockets that fail to send     *)
(*   SpecVirtual   requests that name their target by a virtual id         *)
(***************************************************************************)
EXTENDS Integers, FiniteSets, Sequences, Bags, TLC

VARIABLES
    identities,          \* rows of comm_chat_identities
    nextIdentityId,      \* AUTO_INCREMENT of comm_chat_identities
    conversations,       \* rows of comm_conversations
    nextConversationId,  \* AUTO_INCREMENT of comm_conversations
    participants,        \* bag of rows of comm_participants
    last,                \* the most recently completed handler and its outcome
    opCount,             \* handlers completed so far (Spec)
    calls,               \* in-flight async calls (interleaved specifications)
    codec,               \* the codec's input and intermediate values
    messages,            \* rows of comm_messages
    nextMessageId,       \* AUTO_INCREMENT of comm_messages
    updatedAt,           \* conversations.updatedAt, by conversation id
    now,                 \* the server clock, in milliseconds
    clients,             \* the sockets the hub accepted, by connection
    online,              \* the isOnline column of comm_chat_identities
    inbox                \* what the last notifyList call sent, by connection

vars == <<identities, nextIdentityId, conversations, nextConversationId,
          participants, last, opCount, calls, codec,
          messages, nextMessageId, updatedAt, now, clients, online, inbox>>

dbVars == <<identities, nextIdentityId, conversations, nextConversationId,
            participants>>

msgVars == <<messages, nextMessageId, updatedAt, now>>

hubVars == <<clients, online, inbox>>

\* no socket has connected and no identity is online
NoHub ==
    /\ clients = <<>>
    /\ online = <<>>
    /\ inbox = <<>>

\* no message has been sent and the clock stands at its origin
NoMessages ==
    /\ messages = {}
    /\ nextMessageId = 1
    /\ updatedAt = <<>>
    /\ now = 0

(***************************************************************************)
(* Bounds                                                                  *)
(***************************************************************************)
MaxCodecId == 8        \* small entity ids 1..MaxCodecId fed to the codec
CodecWindow == 4       \* ids within CodecWindow of the staff offset

(***************************************************************************)
(* Program constants                                                       *)
(***************************************************************************)
StaffOffset == 100000

EntityTypes == {"student", "staff"}

NoId == 0              \* "undefined" / NULL for an id-valued column or result

Abs(n) == IF n < 0 THEN -n ELSE n

(***************************************************************************)
(* Virtual-id codec                                                        *)
(***************************************************************************)
\* getIdentities: id of the virtual row pushed for a student / staff record
EncodeVirtualId(entityType, entityId) ==
    IF entityType = "student" THEN -entityId
    ELSE -entityId - StaffOffset

\* routes.ts ensureIdentity: the (entityType, entityId) a non-positive id
\* is decoded to before storage.ensureIdentity is called
DecodeVirtualId(identityId) ==
    IF identityId <= -StaffOffset
    THEN [entityType |-> "staff", entityId |-> Abs(identityId + StaffOffset)]
    ELSE [entityType |-> "student", entityId |-> Abs(identityId)]

CodecEntityIds ==
    (1..MaxCodecId) \cup ((StaffOffset - CodecWindow)..(StaffOffset + CodecWindow))

NoCodec == [stage |-> "off"]

IdleDb ==
    /\ identities = {}
    /\ nextIdentityId = 1
    /\ conversations = {}
    /\ nextConversationId = 1
    /\ participants = EmptyBag
    /\ last = [op |-> "none"]
    /\ opCount = 0
    /\ calls = <<>>

InitCodec ==
    /\ IdleDb
    /\ NoMessages
    /\ NoHub
    /\ \E t \in EntityTypes, e \in CodecEntityIds :
          codec = [stage |-> "input", entityType |-> t, entityId |-> e,
                   virtualId |-> 0, decoded |-> [entityType |-> "", entityId |-> 0]]

CodecEncode ==
    /\ codec.stage = "input"
    /\ codec' = [codec EXCEPT !.stage = "encoded",
                              !.virtualId = EncodeVirtualId(codec.entityType, codec.entityId)]
    /\ UNCHANGED <<dbVars, last, opCount, calls, msgVars, hubVars>>

CodecDecode ==
    /\ codec.stage = "encoded"
    /\ codec' = [codec EXCEPT !.stage = "decoded",
                              !.decoded = DecodeVirtualId(codec.virtualId)]
    /\ UNCHANGED <<dbVars, last, opCount, calls, msgVars, hubVars>>

NextCodec == CodecEncode \/ CodecDecode

SpecCodec == InitCodec /\ [][NextCodec]_vars

\* C3: decoding the virtual id produced by the encoder returns the same
\* (entityType, entityId), for both entity types and every positive entityId.
C3_RoundTrip ==
    codec.stage = "decoded" =>
        /\ codec.decoded.entityType = codec.entityType
        /\ codec.decoded.entityId = codec.entityId

(***************************************************************************)
(* Academic records (read-only collaborator) and identity rows             *)
(***************************************************************************)
MaxEntityId == 2       \* provisioning calls name the entity ids 1..MaxEntityId

\* ids of the rows of the students and staff tables; student 2 has no record
StudentIds == {1, 3}
StaffIds == {1, 2, 3}

\* entity ids a provisioning call may name
RequestEntityIds == 1..MaxEntityId

RecordExists(entityType, entityId) ==
    IF entityType = "student" THEN entityId \in StudentIds
    ELSE entityId \in StaffIds

\* s.email of the backing record; every record of the model has its own address
EmailOf(entityType, entityId) == <<entityType, entityId>>

NoEmail == <<>>

\* the hard-coded allow-list of the login callback
SuperAdminEmails == {EmailOf("staff", 1)}

Db == [identities |-> identities, nextIdentityId |-> nextIdentityId,
       conversations |-> conversations, nextConversationId |-> nextConversationId,
       participants |-> participants]

SetDb(d) ==
    /\ identities' = d.identities
    /\ nextIdentityId' = d.nextIdentityId
    /\ conversations' = d.conversations
    /\ nextConversationId' = d.nextConversationId
    /\ participants' = d.participants

NoIdentity == [id |-> NoId, entityType |-> "", entityId |-> NoId, role |-> "",
               email |-> NoEmail]

MinOf(S) == CHOOSE x \in S : \A y \in S : x <= y

\* storage.getIdentity: the row with this id, or undefined
GetIdentity(d, id) ==
    LET rows == {i \in d.identities : i.id = id}
    IN IF rows = {} THEN NoIdentity ELSE CHOOSE i \in rows : TRUE

\* const [existing] = select ... where entityType = .. and entityId = ..
\* (the first row in primary-key order)
SelectIdentityByEntity(d, entityType, entityId) ==
    LET rows == {i \in d.identities :
                    i.entityType = entityType /\ i.entityId = entityId}
    IN IF rows = {} THEN NoIdentity
       ELSE CHOOSE i \in rows : i.id = MinOf({r.id : r \in rows})

\* let [identity] = select ... where email = userEmail
SelectIdentityByEmail(d, email) ==
    LET rows == {i \in d.identities : i.email = email}
    IN IF rows = {} THEN NoIdentity
       ELSE CHOOSE i \in rows : i.id = MinOf({r.id : r \in rows})

\* The uniqueness constraint of comm_chat_identities on (entityType, entityId)
IdentityKeyUnique(d, entityType, entityId) ==
    ~\E i \in d.identities : i.entityType = entityType /\ i.entityId = entityId

\* db.insert(chatIdentities).values(..): the new row gets the next
\* auto-increment id; a duplicate key makes the insert throw
InsertIdentity(d, entityType, entityId, role, email) ==
    IF IdentityKeyUnique(d, entityType, entityId)
    THEN [ok |-> TRUE, insertId |-> d.nextIdentityId,
          db |-> [d EXCEPT !.identities = @ \cup
                        {[id |-> d.nextIdentityId, entityType |-> entityType,
                          entityId |-> entityId, role |-> role, email |-> email]},
                      !.nextIdentityId = @ + 1]]
    ELSE [ok |-> FALSE, insertId |-> NoId, db |-> d]

ProvisionedRole(entityType) == IF entityType = "student" THEN "STUDENT" ELSE "STAFF"

\* DatabaseStorage.ensureIdentity, from the fetch of the source record on
\* (the part after `if (existing) return existing.id`)
StorageProvision(d, entityType, entityId) ==
    IF ~RecordExists(entityType, entityId)
    THEN [status |-> "notfound", id |-> NoId, db |-> d]
    ELSE LET ins == InsertIdentity(d, entityType, entityId,
                                   ProvisionedRole(entityType),
                                   EmailOf(entityType, entityId))
         IN IF ins.ok THEN [status |-> "ok", id |-> ins.insertId, db |-> ins.db]
            ELSE [status |-> "error", id |-> NoId, db |-> d]

\* ensureIdentity with the existence check left out: the insert always runs
StorageEnsureIdentity_NoCheck(d, entityType, entityId) ==
    StorageProvision(d, entityType, entityId)

\* DatabaseStorage.ensureIdentity
StorageEnsureIdentity(d, entityType, entityId) ==
    LET existing == SelectIdentityByEntity(d, entityType, entityId)
    IN IF existing.id # NoId
       THEN [status |-> "ok", id |-> existing.id, db |-> d]
       ELSE StorageProvision(d, entityType, entityId)

\* AutoGroupService.ensureIdentity, the try block: a missing record leaves
\* the defaults ("Unknown", "") and the insert still runs; any throw is
\* caught and null returned
AutoGroupProvision(d, entityType, entityId) ==
    LET email == IF RecordExists(entityType, entityId)
                 THEN EmailOf(entityType, entityId) ELSE NoEmail
        ins == InsertIdentity(d, entityType, entityId,
                              ProvisionedRole(entityType), email)
    IN IF ins.ok THEN [status |-> "ok", id |-> ins.insertId, db |-> ins.db]
       ELSE [status |-> "null", id |-> NoId, db |-> d]

\* AutoGroupService.ensureIdentity
AutoGroupEnsureIdentity(d, entityType, entityId) ==
    LET existing == SelectIdentityByEntity(d, entityType, entityId)
    IN IF existing.id # NoId
       THEN [status |-> "ok", id |-> existing.id, db |-> d]
       ELSE AutoGroupProvision(d, entityType, entityId)

\* login callback: finalRole
FinalRole(role, email) == IF email \in SuperAdminEmails THEN "SUPER_ADMIN" ELSE role

\* the login that writes finalRole to an existing row whatever its role
LoginProvision_Sync(d, identity, entityType, entityId) ==
    LET email == EmailOf(entityType, entityId)
        finalRole == FinalRole(ProvisionedRole(entityType), email)
    IN IF identity.id = NoId
       THEN LET ins == InsertIdentity(d, entityType, entityId, finalRole, email)
            IN IF ins.ok THEN [status |-> "ok", id |-> ins.insertId, db |-> ins.db]
               ELSE [status |-> "error", id |-> NoId, db |-> d]
       ELSE [status |-> "ok", id |-> identity.id,
             db |-> [d EXCEPT !.identities =
                       {IF i.id = identity.id
                        THEN [i EXCEPT !.role = finalRole] ELSE i : i \in @}]]

\* login callback from `if (!identity)` on, identity being the row read by
\* email (NoIdentity if none): insert, or promote an existing row
LoginProvision(d, identity, entityType, entityId) ==
    LET email == EmailOf(entityType, entityId)
        finalRole == FinalRole(ProvisionedRole(entityType), email)
    IN IF identity.id = NoId
       THEN LET ins == InsertIdentity(d, entityType, entityId, finalRole, email)
            IN IF ins.ok THEN [status |-> "ok", id |-> ins.insertId, db |-> ins.db]
               ELSE [status |-> "error", id |-> NoId, db |-> d]
       ELSE IF identity.role # "SUPER_ADMIN" /\ finalRole = "SUPER_ADMIN"
            THEN [status |-> "ok", id |-> identity.id,
                  db |-> [d EXCEPT !.identities =
                            {IF i.id = identity.id
                             THEN [i EXCEPT !.role = "SUPER_ADMIN"] ELSE i : i \in @}]]
            ELSE [status |-> "ok", id |-> identity.id, db |-> d]

\* login callback for a user whose password matched
LoginEnsureIdentity(d, entityType, entityId) ==
    LoginProvision(d, SelectIdentityByEmail(d, EmailOf(entityType, entityId)),
                   entityType, entityId)

(***************************************************************************)
(* SpecResolve: the provisioning paths, one call at a time                 *)
(***************************************************************************)
ResolvePaths == {"storage", "autogroup", "login"}

\* one whole provisioning call on path `path`
EnsureIdentityVia(path, d, entityType, entityId) ==
    IF path = "storage" THEN StorageEnsureIdentity(d, entityType, entityId)
    ELSE IF path = "autogroup" THEN AutoGroupEnsureIdentity(d, entityType, entityId)
    ELSE LoginEnsureIdentity(d, entityType, entityId)

InitResolve ==
    /\ IdleDb
    /\ codec = NoCodec
    /\ NoMessages
    /\ NoHub

Completed(path, entityType, entityId, r) ==
    /\ SetDb(r.db)
    /\ last' = [op |-> path, entityType |-> entityType, entityId |-> entityId,
                status |-> r.status, id |-> r.id]
    /\ UNCHANGED <<opCount, calls, codec, msgVars, hubVars>>

\* POST /api/admin/users/provision, or the JIT helper of routes.ts
ResolveStorage(entityType, entityId) ==
    Completed("storage", entityType, entityId,
              StorageEnsureIdentity(Db, entityType, entityId))

\* AutoGroupService.syncStudent / syncStaff, step "Get or Create Chat Identity"
ResolveAutoGroup(entityType, entityId) ==
    Completed("autogroup", entityType, entityId,
              AutoGroupEnsureIdentity(Db, entityType, entityId))

\* a successful login of the user behind (entityType, entityId); only
\* users with a record can log in
ResolveLogin(entityType, entityId) ==
    /\ RecordExists(entityType, entityId)
    /\ Completed("login", entityType, entityId,
                 LoginEnsureIdentity(Db, entityType, entityId))

NextResolve ==
    \E t \in EntityTypes, e \in RequestEntityIds :
        \/ ResolveStorage(t, e)
        \/ ResolveAutoGroup(t, e)
        \/ ResolveLogin(t, e)

SpecResolve == InitResolve /\ [][NextResolve]_vars

RowsOf(entityType, entityId) ==
    {i \in identities : i.entityType = entityType /\ i.entityId = entityId}

IsResolve(l) == l.op \in {"storage", "autogroup"}

\* C4: resolve is idempotent when called sequentially: a call that follows
\* a call for the same (entityType, entityId) returns the same identity id,
\* and exactly one identity row for that entity exists afterwards.
C4_ResolveIdempotent ==
    [][(/\ IsResolve(last) /\ IsResolve(last')
        /\ last.status = "ok"
        /\ last'.entityType = last.entityType
        /\ last'.entityId = last.entityId)
       => (/\ last'.status = "ok"
           /\ last'.id = last.id
           /\ identities' = identities
           /\ \E i \in identities' :
                 {i} = {r \in identities' : r.entityType = last'.entityType
                                            /\ r.entityId = last'.entityId}
           /\ \A i \in identities' :
                 (i.entityType = last'.entityType /\ i.entityId = last'.entityId)
                    => i.id = last'.id)]_vars

\* C4 witness: a second resolve of an entity has returned the id the first
\* one allocated
C4_Witness ==
    /\ IsResolve(last) /\ last.status = "ok"
    /\ last.id # NoId
    /\ last.id < nextIdentityId - 1
    /\ Cardinality(identities) >= 2

(***************************************************************************)
(* SpecProvision: provisioning calls interleaved at their awaits.  A call  *)
(* first awaits its select (by entity key, or by email on the login path)  *)
(* and, once that has returned, either returns the row it read or reads    *)
(* the source record (read-only) and awaits the insert.                    *)
(***************************************************************************)
MaxCallers == 2

Callers == 1..MaxCallers

IdleCall == [pc |-> "idle"]

InitProvision ==
    /\ identities = {}
    /\ nextIdentityId = 1
    /\ conversations = {}
    /\ nextConversationId = 1
    /\ participants = EmptyBag
    /\ last = [op |-> "none"]
    /\ opCount = 0
    /\ calls = [c \in Callers |-> IdleCall]
    /\ codec = NoCodec
    /\ NoMessages
    /\ NoHub

\* the first await of a call: the select for an existing row
ProvisionSelect(c, path, entityType, entityId) ==
    /\ calls[c].pc = "idle"
    /\ path = "login" => RecordExists(entityType, entityId)
    /\ calls' = [calls EXCEPT ![c] =
            [pc |-> "selected", path |-> path,
             entityType |-> entityType, entityId |-> entityId,
             existing |-> IF path = "login"
                          THEN SelectIdentityByEmail(Db, EmailOf(entityType, entityId))
                          ELSE SelectIdentityByEntity(Db, entityType, entityId)]]
    /\ UNCHANGED <<dbVars, last, opCount, codec, msgVars, hubVars>>

\* the rest of the call, run against the store as it is now
ProvisionRest(d, call) ==
    IF call.path = "login"
    THEN LoginProvision(d, call.existing, call.entityType, call.entityId)
    ELSE IF call.existing.id # NoId
    THEN [status |-> "ok", id |-> call.existing.id, db |-> d]
    ELSE IF call.path = "storage"
    THEN StorageProvision(d, call.entityType, call.entityId)
    ELSE AutoGroupProvision(d, call.entityType, call.entityId)

ProvisionFinish(c) ==
    /\ calls[c].pc = "selected"
    /\ LET r == ProvisionRest(Db, calls[c])
       IN /\ SetDb(r.db)
          /\ calls' = [calls EXCEPT ![c] =
                [pc |-> "done", path |-> calls[c].path,
                 entityType |-> calls[c].entityType, entityId |-> calls[c].entityId,
                 status |-> r.status, id |-> r.id]]
    /\ UNCHANGED <<last, opCount, codec, msgVars, hubVars>>

NextProvision ==
    \E c \in Callers :
        \/ \E path \in ResolvePaths, t \in EntityTypes, e \in RequestEntityIds :
              ProvisionSelect(c, path, t, e)
        \/ ProvisionFinish(c)

SpecProvision == InitProvision /\ [][NextProvision]_vars

\* C2: under any interleaving of the provisioning paths at most one identity
\* row exists per (entityType, entityId), and every caller that resolved an
\* entity with a backing record ends with that row's id.
C2_NoDuplicateIdentity ==
    /\ \A t \in EntityTypes, e \in RequestEntityIds : Cardinality(RowsOf(t, e)) <= 1
    /\ \A c \in Callers :
          (calls[c].pc = "done" /\ RecordExists(calls[c].entityType, calls[c].entityId))
             => /\ calls[c].status = "ok"
                /\ \E i \in RowsOf(calls[c].entityType, calls[c].entityId) :
                       i.id = calls[c].id

(***************************************************************************)
(* Conversations and participants                                          *)
(***************************************************************************)
NoName == ""

NoConversation == [id |-> NoId, type |-> "", scope |-> "", name |-> NoName]

NoParticipant == [conversationId |-> NoId, identityId |-> NoId, role |-> "",
                  addedByIdentityId |-> NoId]

\* storage.getConversation
GetConversation(d, id) ==
    LET rows == {c \in d.conversations : c.id = id}
    IN IF rows = {} THEN NoConversation ELSE CHOOSE c \in rows : TRUE

\* The uniqueness of non-PRIVATE groups per (name, type, scope)
GroupKeyUnique(d, type, scope, name) ==
    (type = "GROUP" /\ scope # "PRIVATE")
        => ~\E c \in d.conversations :
               c.type = type /\ c.scope = scope /\ c.name = name

\* db.insert(conversations).values(..), the row read back by insertId
InsertConversation(d, type, scope, name) ==
    IF GroupKeyUnique(d, type, scope, name)
    THEN [ok |-> TRUE, id |-> d.nextConversationId,
          db |-> [d EXCEPT !.conversations = @ \cup
                        {[id |-> d.nextConversationId, type |-> type,
                          scope |-> scope, name |-> name]},
                      !.nextConversationId = @ + 1]]
    ELSE [ok |-> FALSE, id |-> NoId, db |-> d]

ParticipantRows(d, conversationId, identityId) ==
    {r \in BagToSet(d.participants) :
        r.conversationId = conversationId /\ r.identityId = identityId}

\* storage.getParticipant: const [participant] = select ...
GetParticipant(d, conversationId, identityId) ==
    LET rows == ParticipantRows(d, conversationId, identityId)
    IN IF rows = {} THEN NoParticipant ELSE CHOOSE r \in rows : TRUE

\* no key on the participants table: every insert is accepted
ParticipantKeyUnique_None(d, conversationId, identityId) == TRUE

\* The uniqueness of membership per (conversationId, identityId)
ParticipantKeyUnique(d, conversationId, identityId) ==
    ParticipantRows(d, conversationId, identityId) = {}

\* the insert that also throws when the conversation or the identity of the
\* new row does not exist
InsertParticipant_Referenced(d, conversationId, identityId, role, addedByIdentityId) ==
    IF /\ ParticipantKeyUnique(d, conversationId, identityId)
       /\ \E c \in d.conversations : c.id = conversationId
       /\ \E i \in d.identities : i.id = identityId
    THEN [ok |-> TRUE,
          db |-> [d EXCEPT !.participants = @ (+) SetToBag(
                     {[conversationId |-> conversationId, identityId |-> identityId,
                       role |-> role, addedByIdentityId |-> addedByIdentityId]})]]
    ELSE [ok |-> FALSE, db |-> d]

\* storage.addParticipant: a plain insert; a duplicate key makes it throw
InsertParticipant(d, conversationId, identityId, role, addedByIdentityId) ==
    IF ParticipantKeyUnique(d, conversationId, identityId)
    THEN [ok |-> TRUE,
          db |-> [d EXCEPT !.participants = @ (+) SetToBag(
                     {[conversationId |-> conversationId, identityId |-> identityId,
                       role |-> role, addedByIdentityId |-> addedByIdentityId]})]]
    ELSE [ok |-> FALSE, db |-> d]

\* storage.removeParticipant: delete ... where conversationId and identityId
DeleteParticipant(d, conversationId, identityId) ==
    LET keep == {r \in BagToSet(d.participants) :
                    ~(r.conversationId = conversationId /\ r.identityId = identityId)}
    IN [d EXCEPT !.participants =
            IF keep = {} THEN EmptyBag ELSE [r \in keep |-> d.participants[r]]]

\* storage.findDirectConversation: the DIRECT conversations of identityA,
\* then the first participant row of identityB in one of them
FindDirectConversation(d, identityA, identityB) ==
    LET convIdsA == {r.conversationId : r \in
                       {r \in BagToSet(d.participants) :
                           /\ r.identityId = identityA
                           /\ GetConversation(d, r.conversationId).type = "DIRECT"}}
        matches == {r \in BagToSet(d.participants) :
                       r.conversationId \in convIdsA /\ r.identityId = identityB}
    IN IF convIdsA = {} \/ matches = {} THEN NoConversation
       ELSE GetConversation(d, MinOf({r.conversationId : r \in matches}))

\* ensureIdentity that hands every id back as it came
EnsureIdentity_PassThrough(d, identityId) ==
    [status |-> "ok", id |-> identityId, db |-> d]

\* routes.ts ensureIdentity (JIT provisioning of a virtual id)
EnsureIdentity(d, identityId) ==
    IF identityId > 0 THEN [status |-> "ok", id |-> identityId, db |-> d]
    ELSE LET ref == DecodeVirtualId(identityId)
         IN StorageEnsureIdentity(d, ref.entityType, ref.entityId)

ForbiddenDirectRoles == {"VC", "DEAN", "HOD", "REGISTRAR"}
StaffTierRoles == {"STAFF", "ADMIN", "HOD"}
RemoveAdminRoles == {"SUPER_ADMIN", "VC", "DEAN", "HOD", "REGISTRAR"}

\* createDirect with the lookup left out: a conversation is always created
DirectFindOrCreate_NoFind(d, meId, targetId) ==
    LET c == InsertConversation(d, "DIRECT", "PRIVATE", NoName)
        p1 == InsertParticipant(c.db, c.id, meId, "member", NoId)
        p2 == InsertParticipant(p1.db, c.id, targetId, "member", NoId)
    IN IF ~c.ok THEN [status |-> "error", conversationId |-> NoId, db |-> d]
       ELSE IF ~p1.ok
       THEN [status |-> "error", conversationId |-> c.id, db |-> c.db]
       ELSE IF ~p2.ok
       THEN [status |-> "error", conversationId |-> c.id, db |-> p1.db]
       ELSE [status |-> "ok", conversationId |-> c.id, db |-> p2.db]

\* POST createDirect, from findDirectConversation on
DirectFindOrCreate(d, meId, targetId) ==
    LET found == FindDirectConversation(d, meId, targetId)
    IN IF found.id # NoId
       THEN [status |-> "ok", conversationId |-> found.id, db |-> d]
       ELSE LET c == InsertConversation(d, "DIRECT", "PRIVATE", NoName)
                p1 == InsertParticipant(c.db, c.id, meId, "member", NoId)
                p2 == InsertParticipant(p1.db, c.id, targetId, "member", NoId)
            IN IF ~c.ok THEN [status |-> "error", conversationId |-> NoId, db |-> d]
               ELSE IF ~p1.ok
               THEN [status |-> "error", conversationId |-> c.id, db |-> c.db]
               ELSE IF ~p2.ok
               THEN [status |-> "error", conversationId |-> c.id, db |-> p1.db]
               ELSE [status |-> "ok", conversationId |-> c.id, db |-> p2.db]

\* POST createDirect handler (api.conversations.createDirect)
CreateDirectHandler(d, meId, targetIdentityId) ==
    LET me == GetIdentity(d, meId)
        e == EnsureIdentity(d, targetIdentityId)
        target == GetIdentity(e.db, e.id)
    IN IF e.status # "ok"
       THEN [status |-> "error", conversationId |-> NoId, db |-> e.db]
       ELSE IF target.id = NoId
       THEN [status |-> "notfound", conversationId |-> NoId, db |-> e.db]
       ELSE IF me.role = "STUDENT" /\ target.role \in ForbiddenDirectRoles
       THEN [status |-> "forbidden", conversationId |-> NoId, db |-> e.db]
       ELSE DirectFindOrCreate(e.db, me.id, target.id)

\* AutoGroupService.ensureGroupAndJoin, step 1: select the group
SelectGroup(d, groupName, scope) ==
    LET rows == {c \in d.conversations :
                    c.name = groupName /\ c.type = "GROUP" /\ c.scope = scope}
    IN IF rows = {} THEN NoConversation
       ELSE CHOOSE c \in rows : c.id = MinOf({r.id : r \in rows})

\* step 2 with the membership check left out: the insert always runs
JoinGroup_NoCheck(d, conversationId, identityId) ==
    LET p == InsertParticipant(d, conversationId, identityId, "member", NoId)
    IN IF p.ok THEN [status |-> "ok", conversationId |-> conversationId, db |-> p.db]
       ELSE [status |-> "error", conversationId |-> conversationId, db |-> d]

\* AutoGroupService.ensureGroupAndJoin, step 2: check membership, then insert
JoinGroup(d, conversationId, identityId) ==
    IF GetParticipant(d, conversationId, identityId).conversationId # NoId
    THEN [status |-> "ok", conversationId |-> conversationId, db |-> d]
    ELSE LET p == InsertParticipant(d, conversationId, identityId, "member", NoId)
         IN IF p.ok THEN [status |-> "ok", conversationId |-> conversationId, db |-> p.db]
            ELSE [status |-> "error", conversationId |-> conversationId, db |-> d]

\* AutoGroupService.ensureGroupAndJoin
EnsureGroupAndJoinHandler(d, groupName, scope, identityId) ==
    LET existingConv == SelectGroup(d, groupName, scope)
    IN IF existingConv.id # NoId
       THEN JoinGroup(d, existingConv.id, identityId)
       ELSE LET c == InsertConversation(d, "GROUP", scope, groupName)
            IN IF c.ok THEN JoinGroup(c.db, c.id, identityId)
               ELSE [status |-> "error", conversationId |-> NoId, db |-> d]

\* one turn of the loop with the test of the target's role left out
AddGroupTarget_NoSkip(d, me, conversationId, pid) ==
    LET e == EnsureIdentity(d, pid)
        p == InsertParticipant(e.db, conversationId, e.id, "member", me.id)
    IN IF e.status # "ok" THEN e.db ELSE p.db

\* POST /api/conversations/group, one turn of the loop over participantIds:
\* any throw inside the try block is caught and the loop goes on
AddGroupTarget(d, me, conversationId, pid) ==
    LET e == EnsureIdentity(d, pid)
        target == GetIdentity(e.db, e.id)
        p == InsertParticipant(e.db, conversationId, e.id, "member", me.id)
    IN IF e.status # "ok" THEN e.db
       ELSE IF me.role = "STUDENT" /\ target.id # NoId /\ target.role # "STUDENT"
       THEN e.db
       ELSE p.db

RECURSIVE AddGroupTargets(_, _, _, _)
AddGroupTargets(d, me, conversationId, participantIds) ==
    IF participantIds = <<>> THEN d
    ELSE AddGroupTargets(AddGroupTarget(d, me, conversationId, Head(participantIds)),
                         me, conversationId, Tail(participantIds))

\* POST /api/conversations/group
CreateGroupHandler(d, meId, name, participantIds) ==
    LET me == GetIdentity(d, meId)
        c == InsertConversation(d, "GROUP", "PRIVATE", name)
        creator == InsertParticipant(c.db, c.id, me.id, "admin", me.id)
    IN IF ~c.ok THEN [status |-> "error", conversationId |-> NoId, db |-> d]
       ELSE IF ~creator.ok
       THEN [status |-> "error", conversationId |-> c.id, db |-> c.db]
       ELSE [status |-> "ok", conversationId |-> c.id,
             db |-> AddGroupTargets(creator.db, me, c.id, participantIds)]

\* the handler with the test of the conversation's type left out
AddParticipantHandler_AnyType(d, meId, conversationId, identityId) ==
    LET me == GetIdentity(d, meId)
        conversation == GetConversation(d, conversationId)
        meParticipant == GetParticipant(d, conversationId, me.id)
        e == EnsureIdentity(d, identityId)
        targetIdentity == GetIdentity(e.db, e.id)
        p == InsertParticipant(e.db, conversationId, e.id, "member", me.id)
    IN IF conversation.id = NoId THEN [status |-> "notfound", db |-> d]
       ELSE IF meParticipant.conversationId = NoId THEN [status |-> "forbidden", db |-> d]
       ELSE IF e.status # "ok" THEN [status |-> "error", db |-> e.db]
       ELSE IF me.role = "STUDENT" /\ targetIdentity.id = NoId
       THEN [status |-> "notfound", db |-> e.db]
       ELSE IF me.role = "STUDENT" /\ targetIdentity.role # "STUDENT"
       THEN [status |-> "forbidden", db |-> e.db]
       ELSE IF ~p.ok THEN [status |-> "error", db |-> e.db]
       ELSE [status |-> "ok", db |-> p.db]

\* the handler with the test of the actor's membership left out
AddParticipantHandler_NoMemberCheck(d, meId, conversationId, identityId) ==
    LET me == GetIdentity(d, meId)
        conversation == GetConversation(d, conversationId)
        e == EnsureIdentity(d, identityId)
        targetIdentity == GetIdentity(e.db, e.id)
        p == InsertParticipant(e.db, conversationId, e.id, "member", me.id)
    IN IF conversation.id = NoId THEN [status |-> "notfound", db |-> d]
       ELSE IF conversation.type # "GROUP" THEN [status |-> "badrequest", db |-> d]
       ELSE IF e.status # "ok" THEN [status |-> "error", db |-> e.db]
       ELSE IF me.role = "STUDENT" /\ targetIdentity.id = NoId
       THEN [status |-> "notfound", db |-> e.db]
       ELSE IF me.role = "STUDENT" /\ targetIdentity.role # "STUDENT"
       THEN [status |-> "forbidden", db |-> e.db]
       ELSE IF ~p.ok THEN [status |-> "error", db |-> e.db]
       ELSE [status |-> "ok", db |-> p.db]

\* POST /api/conversations/:id/participants
AddParticipantHandler(d, meId, conversationId, identityId) ==
    LET me == GetIdentity(d, meId)
        conversation == GetConversation(d, conversationId)
        meParticipant == GetParticipant(d, conversationId, me.id)
        e == EnsureIdentity(d, identityId)
        targetIdentity == GetIdentity(e.db, e.id)
        p == InsertParticipant(e.db, conversationId, e.id, "member", me.id)
    IN IF conversation.id = NoId THEN [status |-> "notfound", db |-> d]
       ELSE IF conversation.type # "GROUP" THEN [status |-> "badrequest", db |-> d]
       ELSE IF meParticipant.conversationId = NoId THEN [status |-> "forbidden", db |-> d]
       ELSE IF e.status # "ok" THEN [status |-> "error", db |-> e.db]
       ELSE IF me.role = "STUDENT" /\ targetIdentity.id = NoId
       THEN [status |-> "notfound", db |-> e.db]
       ELSE IF me.role = "STUDENT" /\ targetIdentity.role # "STUDENT"
       THEN [status |-> "forbidden", db |-> e.db]
       ELSE IF ~p.ok THEN [status |-> "error", db |-> e.db]
       ELSE [status |-> "ok", db |-> p.db]

\* case 1 with the test of the actor's role left out
LeaveForbidden_AnyActor(d, me, targetParticipant) ==
    /\ targetParticipant.addedByIdentityId # NoId
    /\ LET adder == GetIdentity(d, targetParticipant.addedByIdentityId)
       IN adder.id # NoId /\ adder.role \in StaffTierRoles

\* DELETE participants handler, case 1: may this identity leave on its own?
LeaveForbidden(d, me, targetParticipant) ==
    /\ me.role = "STUDENT"
    /\ targetParticipant.addedByIdentityId # NoId
    /\ LET adder == GetIdentity(d, targetParticipant.addedByIdentityId)
       IN adder.id # NoId /\ adder.role \in StaffTierRoles

\* case 2 with the group-admin exception left out
RemoveOtherForbidden_SystemOnly(d, me, conversationId) ==
    me.role \notin RemoveAdminRoles

\* case 2 with co-admins let through as well
RemoveOtherForbidden_CoAdmin(d, me, conversationId) ==
    /\ me.role \notin RemoveAdminRoles
    /\ LET meParticipant == GetParticipant(d, conversationId, me.id)
       IN meParticipant.role \notin {"admin", "co-admin"}

\* DELETE participants handler, case 2: may this identity remove another?
RemoveOtherForbidden(d, me, conversationId) ==
    /\ me.role \notin RemoveAdminRoles
    /\ LET meParticipant == GetParticipant(d, conversationId, me.id)
       IN meParticipant.conversationId = NoId \/ meParticipant.role # "admin"

\* DELETE /api/conversations/:id/participants/:identityId
RemoveParticipantHandler(d, meId, conversationId, targetId) ==
    LET me == GetIdentity(d, meId)
        conversation == GetConversation(d, conversationId)
        targetParticipant == GetParticipant(d, conversationId, targetId)
    IN IF conversation.id = NoId THEN [status |-> "notfound", db |-> d]
       ELSE IF targetParticipant.conversationId = NoId
       THEN [status |-> "notfound", db |-> d]
       ELSE IF me.id = targetId /\ LeaveForbidden(d, me, targetParticipant)
       THEN [status |-> "forbidden", db |-> d]
       ELSE IF me.id # targetId /\ RemoveOtherForbidden(d, me, conversationId)
       THEN [status |-> "forbidden", db |-> d]
       ELSE [status |-> "ok", db |-> DeleteParticipant(d, conversationId, targetId)]

(***************************************************************************)
(* Spec: the conversation store, one handler at a time.  Three identities  *)
(* are provisioned at the start; student 3 has a record but no identity    *)
(* yet and is reachable through its virtual id.  A behaviour starts from   *)
(* a store the handlers themselves produce: with no conversation, or with  *)
(* one private group already created and filled.                           *)
(***************************************************************************)
MaxOps == 2            \* requests handled in one behaviour

\* storage.updateUserRole
UpdateUserRole(d, identityId, role) ==
    [d EXCEPT !.identities =
        {IF i.id = identityId THEN [i EXCEPT !.role = role] ELSE i : i \in @}]

EmptyStore ==
    [identities |-> {}, nextIdentityId |-> 1,
     conversations |-> {}, nextConversationId |-> 1, participants |-> EmptyBag]

\* student 1 and staff 1 and 2 are provisioned; staff 2 is then made HOD
FreshStore ==
    LET a == StorageEnsureIdentity(EmptyStore, "student", 1)
        b == StorageEnsureIdentity(a.db, "staff", 1)
        c == StorageEnsureIdentity(b.db, "staff", 2)
    IN UpdateUserRole(c.db, c.id, "HOD")

Student1 == SelectIdentityByEntity(FreshStore, "student", 1).id    \* role STUDENT
Staff1 == SelectIdentityByEntity(FreshStore, "staff", 1).id        \* role STAFF
Hod2 == SelectIdentityByEntity(FreshStore, "staff", 2).id          \* role HOD

\* the stores a behaviour may start from
SeedStores ==
    {FreshStore,
     \* the HOD created a group with the staff member, who then added the student
     LET g == CreateGroupHandler(FreshStore, Hod2, "study", <<Staff1>>)
     IN AddParticipantHandler(g.db, Staff1, g.conversationId, Student1).db}

VirtualIds == {EncodeVirtualId("student", 3)}

\* the authenticated principal of a request (getMe): an existing identity
Actors == {i.id : i \in identities}

\* identity ids a request may name
TargetIds == Actors \cup VirtualIds

ConversationIds == {c.id : c \in conversations}

PrivateGroupNames == {"study"}

AutoGroups == {<<"All Students", "global">>}

\* participantIds of a group creation: none, any one id, or two identities
\* in ascending order, repeats allowed
ParticipantIdLists ==
    {<<>>} \cup {<<a>> : a \in TargetIds}
           \cup {p \in {<<a, b>> : a, b \in Actors} : p[1] <= p[2]}

Init ==
    /\ \E d \in SeedStores :
          /\ identities = d.identities
          /\ nextIdentityId = d.nextIdentityId
          /\ conversations = d.conversations
          /\ nextConversationId = d.nextConversationId
          /\ participants = d.participants
    /\ last = [op |-> "none"]
    /\ opCount = 0
    /\ calls = <<>>
    /\ codec = NoCodec
    /\ NoMessages
    /\ NoHub

\* The response of a handler with the request it answers.  requested is the
\* conversation id of the request (none for the creating operations),
\* conversationId the one the response is about; repeat tells that the
\* request just before was the same request; addedBy is the addedByIdentityId
\* a removal read from the target's row.
Respond(op, actor, requested, conversationId, target, addedBy, r) ==
    /\ opCount < MaxOps
    /\ opCount' = opCount + 1
    /\ SetDb(r.db)
    /\ last' = [op |-> op, actor |-> actor, conversationId |-> conversationId,
                target |-> target, status |-> r.status, addedBy |-> addedBy,
                repeat |-> /\ last.op = op
                           /\ last.actor = actor
                           /\ last.target = target
                           /\ requested # NoId => last.conversationId = requested]
    /\ UNCHANGED <<calls, codec, msgVars, hubVars>>

CreateDirect(me, targetIdentityId) ==
    LET r == CreateDirectHandler(Db, me, targetIdentityId)
    IN Respond("createDirect", me, NoId, r.conversationId, targetIdentityId, NoId, r)

CreateGroup(me, name, participantIds) ==
    LET r == CreateGroupHandler(Db, me, name, participantIds)
    IN Respond("createGroup", me, NoId, r.conversationId, participantIds, NoId, r)

AddParticipant(me, conversationId, identityId) ==
    Respond("addParticipant", me, conversationId, conversationId, identityId, NoId,
            AddParticipantHandler(Db, me, conversationId, identityId))

RemoveParticipant(me, conversationId, targetId) ==
    Respond("removeParticipant", me, conversationId, conversationId, targetId,
            GetParticipant(Db, conversationId, targetId).addedByIdentityId,
            RemoveParticipantHandler(Db, me, conversationId, targetId))

EnsureGroupAndJoin(groupName, scope, identityId) ==
    LET r == EnsureGroupAndJoinHandler(Db, groupName, scope, identityId)
    IN Respond("ensureGroupAndJoin", identityId, NoId, r.conversationId,
               <<groupName, scope>>, NoId, r)

Next ==
    \/ \E me \in Actors, t \in TargetIds : CreateDirect(me, t)
    \/ \E me \in Actors, n \in PrivateGroupNames, pids \in ParticipantIdLists :
          CreateGroup(me, n, pids)
    \/ \E me \in Actors, c \in ConversationIds, t \in TargetIds :
          AddParticipant(me, c, t)
    \/ \E me \in Actors, c \in ConversationIds, t \in Actors :
          RemoveParticipant(me, c, t)
    \/ \E g \in AutoGroups, i \in Actors : EnsureGroupAndJoin(g[1], g[2], i)

Spec == Init /\ [][Next]_vars

(***************************************************************************)
(* Properties of the conversation store                                    *)
(***************************************************************************)
GroupRows(d, name, scope) ==
    {c \in d.conversations : c.name = name /\ c.type = "GROUP" /\ c.scope = scope}

\* the number of participant rows of this identity in this conversation
MemberCount(d, conversationId, identityId) ==
    LET rows == ParticipantRows(d, conversationId, identityId)
    IN IF rows = {} THEN 0
       ELSE BagCardinality([r \in rows |-> d.participants[r]])

ConversationUnchanged == conversations' = conversations /\ participants' = participants

C6_Step ==
    last'.op = "ensureGroupAndJoin" =>
        LET name == last'.target[1]
            scope == last'.target[2]
            id == last'.actor
            conv == last'.conversationId
        IN /\ last'.status = "ok"
           /\ GroupRows(Db', name, scope) = {GetConversation(Db', conv)}
           /\ conv # NoId
           /\ MemberCount(Db', conv, id) = 1
           /\ MemberCount(Db, conv, id) = 0
                => /\ GetParticipant(Db', conv, id).role = "member"
                   /\ GetParticipant(Db', conv, id).addedByIdentityId = NoId
           /\ last'.repeat
                => /\ UNCHANGED dbVars
                   /\ last'.conversationId = last.conversationId

\* C6: every ensureGroupAndJoin(name, scope, id) answers with the one GROUP
\* conversation of that name and scope, in which id then has exactly one
\* participant row (role member when the call inserted it); a second call
\* with the same arguments changes nothing and answers the same.
C6_EnsureGroupIdempotent == [][C6_Step]_vars

\* the second of two identical calls has returned
C6_Witness ==
    /\ last.op = "ensureGroupAndJoin" /\ last.repeat /\ last.status = "ok"
    /\ MemberCount(Db, last.conversationId, last.actor) = 1

C7_Unique ==
    \A r \in BagToSet(participants) :
        MemberCount(Db, r.conversationId, r.identityId) = 1

C7_AddTwice ==
    (last'.op = "addParticipant" /\ last'.repeat) => UNCHANGED dbVars

ResolvedIdentity(d, identityId) ==
    IF identityId > 0 THEN GetIdentity(d, identityId)
    ELSE LET ref == DecodeVirtualId(identityId)
         IN SelectIdentityByEntity(d, ref.entityType, ref.entityId)

MembersOf(d, conversationId) ==
    {r \in BagToSet(d.participants) : r.conversationId = conversationId}

ElevatedRoles == {"VC", "DEAN", "HOD", "REGISTRAR"}

C8_Step ==
    last'.op = "createDirect" =>
        LET me == GetIdentity(Db, last'.actor)
            target == ResolvedIdentity(Db', last'.target)
            conv == last'.conversationId
        IN /\ (me.role = "STUDENT" /\ target.role \in ElevatedRoles)
                => /\ last'.status = "forbidden"
                   /\ ConversationUnchanged
           /\ (me.role = "STUDENT" /\ target.role = "STUDENT" /\ target.id # me.id)
                => /\ last'.status = "ok"
                   /\ GetConversation(Db', conv).type = "DIRECT"
                   /\ {r.identityId : r \in MembersOf(Db', conv)} = {me.id, target.id}
                   /\ \A r \in MembersOf(Db', conv) :
                         r.role = "member" /\ participants'[r] = 1
           /\ (last'.repeat /\ last.status = "ok")
                => /\ last'.status = "ok"
                   /\ last'.conversationId = last.conversationId
                   /\ ConversationUnchanged

\* C8: a STUDENT's createDirect towards an identity whose role is VC, DEAN,
\* HOD or REGISTRAR is Forbidden and creates no conversation; towards another
\* STUDENT it succeeds with a DIRECT conversation whose members are exactly
\* the two of them; the same call repeated returns the same conversation and
\* adds nothing.
C8_StudentDirect == [][C8_Step]_vars

\* a student has asked twice for the conversation with another student
C8_Witness ==
    /\ last.op = "createDirect" /\ last.repeat /\ last.status = "ok"
    /\ GetIdentity(Db, last.actor).role = "STUDENT"
    /\ ResolvedIdentity(Db, last.target).role = "STUDENT"
    /\ ResolvedIdentity(Db, last.target).id # last.actor
    /\ Cardinality(MembersOf(Db, last.conversationId)) = 2

\* every participant row but those of this identity in this conversation
OtherRows(d, conversationId, identityId) ==
    {r \in BagToSet(d.participants) :
        ~(r.conversationId = conversationId /\ r.identityId = identityId)}

RowDeleted(conversationId, identityId) ==
    /\ MemberCount(Db', conversationId, identityId) = 0
    /\ OtherRows(Db', conversationId, identityId) = OtherRows(Db, conversationId, identityId)
    /\ identities' = identities /\ conversations' = conversations

\* a student whose row names an adder with role STAFF, ADMIN or HOD
LeaveRestricted(d, conversationId, identityId) ==
    LET row == GetParticipant(d, conversationId, identityId)
    IN /\ GetIdentity(d, identityId).role = "STUDENT"
       /\ row.addedByIdentityId # NoId
       /\ GetIdentity(d, row.addedByIdentityId).role \in {"STAFF", "ADMIN", "HOD"}

IsLeave(l) ==
    l.op = "removeParticipant" /\ l.actor = l.target /\ l.status # "notfound"

C9_Step ==
    IsLeave(last') =>
        IF LeaveRestricted(Db, last'.conversationId, last'.actor)
        THEN last'.status = "forbidden" /\ UNCHANGED dbVars
        ELSE last'.status = "ok" /\ RowDeleted(last'.conversationId, last'.actor)

\* C9: a participant's removal of itself is Forbidden and changes nothing
\* when the actor is a STUDENT whose row names an adder with a staff-tier
\* role (STAFF, ADMIN, HOD); every other leave succeeds and deletes exactly
\* that row.
C9_LeaveRestriction == [][C9_Step]_vars

\* a student added by a staff member was refused its leave
C9_Witness ==
    /\ IsLeave(last) /\ last.status = "forbidden"
    /\ LeaveRestricted(Db, last.conversationId, last.actor)
    /\ last.addedBy # NoId
    /\ GetIdentity(Db, last.addedBy).role = "STAFF"

\* the removal of another participant, found in the conversation
IsRemoveOther(l) ==
    l.op = "removeParticipant" /\ l.actor # l.target /\ l.status # "notfound"

\* student P's row in G names A as its adder, and A has a staff-tier role
AddedByStaff(d, conversationId, p, a) ==
    /\ GetParticipant(d, conversationId, p).addedByIdentityId = a
    /\ LeaveRestricted(d, conversationId, p)

\* P, added by staff identity A, may not leave
C10_LeaveDenied ==
    (IsLeave(last') /\ \E a \in Actors :
                          AddedByStaff(Db, last'.conversationId, last'.actor, a))
        => last'.status = "forbidden" /\ UNCHANGED dbVars

\* A removes the P it added
C10_AdderRemoves ==
    (IsRemoveOther(last') /\
     AddedByStaff(Db, last'.conversationId, last'.target, last'.actor))
        => last'.status = "ok" /\ RowDeleted(last'.conversationId, last'.target)

\* A removes the P it added, A being a system admin or an admin of G
C10_AdminAdderRemoves ==
    (IsRemoveOther(last') /\
     AddedByStaff(Db, last'.conversationId, last'.target, last'.actor))
        => IF \/ GetIdentity(Db, last'.actor).role \in
                    {"SUPER_ADMIN", "VC", "DEAN", "HOD", "REGISTRAR"}
              \/ GetParticipant(Db, last'.conversationId, last'.actor).role = "admin"
           THEN last'.status = "ok" /\ RowDeleted(last'.conversationId, last'.target)
           ELSE last'.status = "forbidden" /\ UNCHANGED dbVars

\* P, in G again without a staff-tier adder, leaves
C10_FreeLeave ==
    (IsLeave(last') /\ GetIdentity(Db, last'.actor).role = "STUDENT"
                    /\ ~LeaveRestricted(Db, last'.conversationId, last'.actor))
        => last'.status = "ok" /\ RowDeleted(last'.conversationId, last'.actor)

\* C10 as stated: when student P was added to group G by staff identity A,
\* P's leave is Forbidden, removeParticipant(A, G, P) succeeds and deletes P's
\* row, and P's leave succeeds once its row names no staff-tier adder.
C10_Scenario == [][C10_LeaveDenied /\ C10_AdderRemoves /\ C10_FreeLeave]_vars

\* C10 amended: as above, but removeParticipant(A, G, P) succeeds only when A
\* holds a system-admin role or is an admin of G, and is Forbidden otherwise.
C10_ScenarioAdmin == [][C10_LeaveDenied /\ C10_AdminAdderRemoves /\ C10_FreeLeave]_vars

\* a staff member, admin of the group, has removed the student it had added
C10_Witness ==
    /\ IsRemoveOther(last) /\ last.status = "ok"
    /\ last.addedBy = last.actor
    /\ GetIdentity(Db, last.actor).role = "STAFF"
    /\ GetIdentity(Db, last.target).role = "STUDENT"
    /\ GetParticipant(Db, last.conversationId, last.actor).role = "admin"
    /\ MemberCount(Db, last.conversationId, last.target) = 0

(***************************************************************************)
(* SpecRace: createDirect requests and ensureGroupAndJoin calls of         *)
(* different callers, interleaved at their awaits.  Identities are the     *)
(* provisioned ones and do not change; targets are identity ids.           *)
(***************************************************************************)
InitRace ==
    /\ identities = FreshStore.identities
    /\ nextIdentityId = FreshStore.nextIdentityId
    /\ conversations = {}
    /\ nextConversationId = 1
    /\ participants = EmptyBag
    /\ last = [op |-> "none"]
    /\ opCount = 0
    /\ calls = [c \in Callers |-> IdleCall]
    /\ codec = NoCodec
    /\ NoMessages
    /\ NoHub

Done(call, status) == [call EXCEPT !.pc = "done", !.status = status]

RaceCall(op, me, target) ==
    [pc |-> "idle", op |-> op, me |-> me, target |-> target,
     conversationId |-> NoId, status |-> ""]

\* createDirect up to and including findDirectConversation
DirectFind(c, meId, targetId) ==
    /\ calls[c].pc = "idle"
    /\ LET me == GetIdentity(Db, meId)
           target == GetIdentity(Db, targetId)
           found == FindDirectConversation(Db, me.id, target.id)
           call == RaceCall("createDirect", meId, targetId)
       IN calls' = [calls EXCEPT ![c] =
            IF me.role = "STUDENT" /\ target.role \in ForbiddenDirectRoles
            THEN Done(call, "forbidden")
            ELSE IF found.id # NoId
            THEN Done([call EXCEPT !.conversationId = found.id], "ok")
            ELSE [call EXCEPT !.pc = "create"]]
    /\ UNCHANGED <<dbVars, last, opCount, codec, msgVars, hubVars>>

\* storage.createConversation({type: 'DIRECT', scope: 'PRIVATE'})
DirectCreate(c) ==
    /\ calls[c].pc = "create"
    /\ LET r == InsertConversation(Db, "DIRECT", "PRIVATE", NoName)
       IN /\ SetDb(r.db)
          /\ calls' = [calls EXCEPT ![c] =
                IF r.ok THEN [@ EXCEPT !.pc = "addMe", !.conversationId = r.id]
                ELSE Done(@, "error")]
    /\ UNCHANGED <<last, opCount, codec, msgVars, hubVars>>

\* storage.addParticipant(conversation.id, me.id, 'member')
DirectAddMe(c) ==
    /\ calls[c].pc = "addMe"
    /\ LET r == InsertParticipant(Db, calls[c].conversationId, calls[c].me,
                                  "member", NoId)
       IN /\ SetDb(r.db)
          /\ calls' = [calls EXCEPT ![c] =
                IF r.ok THEN [@ EXCEPT !.pc = "addTarget"] ELSE Done(@, "error")]
    /\ UNCHANGED <<last, opCount, codec, msgVars, hubVars>>

\* storage.addParticipant(conversation.id, target.id, 'member')
DirectAddTarget(c) ==
    /\ calls[c].pc = "addTarget"
    /\ LET r == InsertParticipant(Db, calls[c].conversationId, calls[c].target,
                                  "member", NoId)
       IN /\ SetDb(r.db)
          /\ calls' = [calls EXCEPT ![c] = Done(@, IF r.ok THEN "ok" ELSE "error")]
    /\ UNCHANGED <<last, opCount, codec, msgVars, hubVars>>

\* ensureGroupAndJoin: the select of the group
GroupSelect(c, groupName, scope, identityId) ==
    /\ calls[c].pc = "idle"
    /\ LET existingConv == SelectGroup(Db, groupName, scope)
           call == RaceCall("ensureGroupAndJoin", identityId, <<groupName, scope>>)
       IN calls' = [calls EXCEPT ![c] =
            IF existingConv.id # NoId
            THEN [call EXCEPT !.pc = "checkMember", !.conversationId = existingConv.id]
            ELSE [call EXCEPT !.pc = "createGroup"]]
    /\ UNCHANGED <<dbVars, last, opCount, codec, msgVars, hubVars>>

\* ensureGroupAndJoin: the insert of the group; a throw ends the call
GroupCreate(c) ==
    /\ calls[c].pc = "createGroup"
    /\ LET r == InsertConversation(Db, "GROUP", calls[c].target[2], calls[c].target[1])
       IN /\ SetDb(r.db)
          /\ calls' = [calls EXCEPT ![c] =
                IF r.ok THEN [@ EXCEPT !.pc = "checkMember", !.conversationId = r.id]
                ELSE Done(@, "error")]
    /\ UNCHANGED <<last, opCount, codec, msgVars, hubVars>>

\* ensureGroupAndJoin: the select of the membership
GroupCheckMember(c) ==
    /\ calls[c].pc = "checkMember"
    /\ LET membership == GetParticipant(Db, calls[c].conversationId, calls[c].me)
       IN calls' = [calls EXCEPT ![c] =
            IF membership.conversationId # NoId THEN Done(@, "ok")
            ELSE [@ EXCEPT !.pc = "join"]]
    /\ UNCHANGED <<dbVars, last, opCount, codec, msgVars, hubVars>>

\* ensureGroupAndJoin: the insert of the membership
GroupJoin(c) ==
    /\ calls[c].pc = "join"
    /\ LET r == InsertParticipant(Db, calls[c].conversationId, calls[c].me,
                                  "member", NoId)
       IN /\ SetDb(r.db)
          /\ calls' = [calls EXCEPT ![c] = Done(@, IF r.ok THEN "ok" ELSE "error")]
    /\ UNCHANGED <<last, opCount, codec, msgVars, hubVars>>

NextRace ==
    \E c \in Callers :
        \/ \E me \in Actors, t \in Actors : DirectFind(c, me, t)
        \/ DirectCreate(c)
        \/ DirectAddMe(c)
        \/ DirectAddTarget(c)
        \/ \E g \in AutoGroups, i \in Actors : GroupSelect(c, g[1], g[2], i)
        \/ GroupCreate(c)
        \/ GroupCheckMember(c)
        \/ GroupJoin(c)

SpecRace == InitRace /\ [][NextRace]_vars

\* the DIRECT conversations that have both a and b as participants
DirectConversationsOf(a, b) ==
    {c \in conversations :
        /\ c.type = "DIRECT"
        /\ MemberCount(Db, c.id, a) > 0
        /\ MemberCount(Db, c.id, b) > 0}

\* C1: under any interleaving of createDirect requests, at most one DIRECT
\* conversation has both A and B as participants, for any two identities.
C1_DirectUnique ==
    \A a, b \in Actors : a # b => Cardinality(DirectConversationsOf(a, b)) <= 1

\* C5: under any interleaving of ensureGroupAndJoin calls, at most one GROUP
\* conversation exists per (name, scope), and every caller whose call has
\* ended is a participant of it.
C5_GroupSingleton ==
    \A g \in AutoGroups :
        /\ Cardinality(GroupRows(Db, g[1], g[2])) <= 1
        /\ \A c \in Callers :
              (calls[c].pc = "done" /\ calls[c].op = "ensureGroupAndJoin"
                                    /\ calls[c].target = g)
                 => \E conv \in GroupRows(Db, g[1], g[2]) :
                        MemberCount(Db, conv.id, calls[c].me) = 1

(***************************************************************************)
(* Participant roles                                                       *)
(***************************************************************************)
ParticipantRoles == {"admin", "co-admin", "member"}

\* isSystemAdmin of the role and message handlers
SystemAdminRoles == {"ADMIN", "SUPER_ADMIN", "HOD", "DEAN", "VC"}

\* the update that writes the whole row anew and so loses addedByIdentityId
UpdateParticipantRole_ResetAdder(d, conversationId, identityId, role) ==
    LET rows == BagToSet(d.participants)
        upd(r) == IF r.conversationId = conversationId /\ r.identityId = identityId
                  THEN [r EXCEPT !.role = role, !.addedByIdentityId = NoId] ELSE r
        newRows == {upd(r) : r \in rows}
    IN [d EXCEPT !.participants =
            IF newRows = {} THEN EmptyBag
            ELSE [n \in newRows |->
                    BagCardinality([r \in {x \in rows : upd(x) = n} |->
                                        d.participants[r]])]]

\* storage.updateParticipantRole: update ... set role where conversationId
\* and identityId
UpdateParticipantRole(d, conversationId, identityId, role) ==
    LET rows == BagToSet(d.participants)
        upd(r) == IF r.conversationId = conversationId /\ r.identityId = identityId
                  THEN [r EXCEPT !.role = role] ELSE r
        newRows == {upd(r) : r \in rows}
    IN [d EXCEPT !.participants =
            IF newRows = {} THEN EmptyBag
            ELSE [n \in newRows |->
                    BagCardinality([r \in {x \in rows : upd(x) = n} |->
                                        d.participants[r]])]]

\* PATCH /api/conversations/:id/participants/:identityId
ChangeRoleHandler(d, meId, conversationId, targetId, role) ==
    LET me == GetIdentity(d, meId)
        isSystemAdmin == me.role \in SystemAdminRoles
        meParticipant == GetParticipant(d, conversationId, me.id)
        isGroupAdmin == ~isSystemAdmin /\ meParticipant.role = "admin"
    IN IF isSystemAdmin \/ isGroupAdmin
       THEN [status |-> "ok",
             db |-> UpdateParticipantRole(d, conversationId, targetId, role)]
       ELSE [status |-> "forbidden", db |-> d]

\* PATCH /api/conversations/:id/participants/:identityId/role
UpdateRoleHandler(d, meId, conversationId, targetIdentityId, role) ==
    LET me == GetIdentity(d, meId)
        conversation == GetConversation(d, conversationId)
        meParticipant == GetParticipant(d, conversationId, me.id)
    IN IF conversation.id = NoId \/ conversation.type # "GROUP"
       THEN [status |-> "badrequest", db |-> d]
       ELSE IF meParticipant.conversationId = NoId \/ meParticipant.role # "admin"
       THEN [status |-> "forbidden", db |-> d]
       ELSE [status |-> "ok",
             db |-> UpdateParticipantRole(d, conversationId, targetIdentityId, role)]

(***************************************************************************)
(* SpecRoles: removals and role changes, one handler at a time, in a       *)
(* private group the staff member created with two students and in a      *)
(* direct conversation; the HOD is a participant of neither.               *)
(***************************************************************************)
RolesStore ==
    LET s == StorageEnsureIdentity(FreshStore, "student", 3)
        g == CreateGroupHandler(s.db, Staff1, "study", <<Student1, s.id>>)
    IN CreateDirectHandler(g.db, Student1, Staff1).db

InitRoles ==
    /\ identities = RolesStore.identities
    /\ nextIdentityId = RolesStore.nextIdentityId
    /\ conversations = RolesStore.conversations
    /\ nextConversationId = RolesStore.nextConversationId
    /\ participants = RolesStore.participants
    /\ last = [op |-> "none"]
    /\ opCount = 0
    /\ calls = <<>>
    /\ codec = NoCodec
    /\ NoMessages
    /\ NoHub

\* conversation ids of a request: the existing ones and one that is not
RequestConversationIds == ConversationIds \cup {nextConversationId}

ChangeRole(me, conversationId, targetId, role) ==
    Respond("changeRole", me, conversationId, conversationId, <<targetId, role>>, NoId,
            ChangeRoleHandler(Db, me, conversationId, targetId, role))

UpdateRole(me, conversationId, targetId, role) ==
    Respond("updateRole", me, conversationId, conversationId, <<targetId, role>>, NoId,
            UpdateRoleHandler(Db, me, conversationId, targetId, role))

NextRoles ==
    \/ \E me \in Actors, c \in RequestConversationIds, t \in Actors :
          RemoveParticipant(me, c, t)
    \/ \E me \in Actors, c \in RequestConversationIds, t \in Actors,
          role \in ParticipantRoles : ChangeRole(me, c, t, role)
    \/ \E me \in Actors, c \in RequestConversationIds, t \in Actors,
          role \in ParticipantRoles : UpdateRole(me, c, t, role)

SpecRoles == InitRoles /\ [][NextRoles]_vars

C11_Step ==
    IsRemoveOther(last') =>
        LET me == GetIdentity(Db, last'.actor)
            meParticipant == GetParticipant(Db, last'.conversationId, last'.actor)
        IN IF \/ me.role \in {"SUPER_ADMIN", "VC", "DEAN", "HOD", "REGISTRAR"}
              \/ meParticipant.role = "admin"
           THEN last'.status = "ok" /\ RowDeleted(last'.conversationId, last'.target)
           ELSE last'.status = "forbidden" /\ UNCHANGED dbVars

\* C11: the removal of another participant succeeds when the actor holds a
\* system-admin role (SUPER_ADMIN, VC, DEAN, HOD, REGISTRAR) or is a
\* participant with role admin, and deletes exactly the target's row; for
\* a co-admin, a member or a non-participant it is Forbidden and nothing
\* changes.
C11_RemoveOther == [][C11_Step]_vars

\* a co-admin was refused the removal of a member
C11_Witness ==
    /\ IsRemoveOther(last) /\ last.status = "forbidden"
    /\ GetParticipant(Db, last.conversationId, last.actor).role = "co-admin"
    /\ MemberCount(Db, last.conversationId, last.target) = 1

IsRoleChange(l) == l.op \in {"changeRole", "updateRole"}

\* every participant row, its role left out
RolelessRows(d) ==
    {[conversationId |-> r.conversationId, identityId |-> r.identityId,
      addedByIdentityId |-> r.addedByIdentityId] : r \in BagToSet(d.participants)}

C12_Step ==
    (IsRoleChange(last') /\ GetConversation(Db, last'.conversationId).type = "GROUP") =>
        LET me == GetIdentity(Db, last'.actor)
            meParticipant == GetParticipant(Db, last'.conversationId, last'.actor)
            targetId == last'.target[1]
            role == last'.target[2]
        IN IF \/ me.role \in {"ADMIN", "SUPER_ADMIN", "HOD", "DEAN", "VC"}
              \/ meParticipant.role = "admin"
           THEN /\ last'.status = "ok"
                /\ MemberCount(Db, last'.conversationId, targetId) = 1
                     => GetParticipant(Db', last'.conversationId, targetId).role = role
                /\ OtherRows(Db', last'.conversationId, targetId)
                     = OtherRows(Db, last'.conversationId, targetId)
                /\ RolelessRows(Db') = RolelessRows(Db)
           ELSE last'.status = "forbidden" /\ UNCHANGED dbVars

\* C12: through either entry point, a role change in a group succeeds (and
\* sets the target's role, nothing else) exactly when the actor holds a
\* system-admin role or is a participant with role admin; otherwise it is
\* Forbidden and no role changes.
C12_ChangeRole == [][C12_Step]_vars

C13_Step ==
    (last'.op = "addParticipant" /\
     GetConversation(Db, last'.conversationId).type = "GROUP") =>
        LET me == GetIdentity(Db, last'.actor)
            isMember == MemberCount(Db, last'.conversationId, last'.actor) > 0
            target == ResolvedIdentity(Db', last'.target)
            added == GetParticipant(Db', last'.conversationId, target.id)
        IN /\ ~isMember => last'.status = "forbidden" /\ UNCHANGED dbVars
           /\ (isMember /\ me.role = "STUDENT" /\ target.id # NoId
                        /\ target.role # "STUDENT")
                => last'.status = "forbidden" /\ participants' = participants
           /\ (isMember /\ (me.role # "STUDENT" \/ target.role = "STUDENT"))
                => last'.status # "forbidden"
           /\ last'.status = "ok"
                => /\ MemberCount(Db, last'.conversationId, target.id) = 0
                   /\ added.role = "member"
                   /\ added.addedByIdentityId = me.id
                   /\ OtherRows(Db', last'.conversationId, target.id)
                        = OtherRows(Db, last'.conversationId, target.id)

\* C13: addParticipant to a group by an actor who is no participant of it is
\* Forbidden and changes nothing; by a participant with role STUDENT it is
\* Forbidden, adding no row, when the target is an identity whose role is
\* not STUDENT, and is not Forbidden otherwise; when it succeeds exactly the
\* target's row is added, as member, with the actor as its adder.
C13_AddParticipant == [][C13_Step]_vars

\* a student, participant of the group, was refused the addition of staff
C13_Witness ==
    /\ last.op = "addParticipant" /\ last.status = "forbidden"
    /\ GetIdentity(Db, last.actor).role = "STUDENT"
    /\ MemberCount(Db, last.conversationId, last.actor) = 1
    /\ ResolvedIdentity(Db, last.target).role \in {"STAFF", "HOD"}
    /\ MemberCount(Db, last.conversationId, last.target) = 0

\* the identities the participantIds of a request stand for, the actor aside
GroupTargets(d, meId, participantIds) ==
    {ResolvedIdentity(d, participantIds[k]) : k \in DOMAIN participantIds}
        \ {NoIdentity, GetIdentity(d, meId)}

C14_Step ==
    last'.op = "createGroup" =>
        LET me == GetIdentity(Db, last'.actor)
            conv == last'.conversationId
            targets == GroupTargets(Db', me.id, last'.target)
            added == IF me.role = "STUDENT"
                     THEN {t \in targets : t.role = "STUDENT"} ELSE targets
        IN /\ last'.status = "ok"
           /\ conv \notin ConversationIds
           /\ conversations' = conversations \cup {GetConversation(Db', conv)}
           /\ GetConversation(Db', conv).type = "GROUP"
           /\ GetConversation(Db', conv).scope = "PRIVATE"
           /\ GetConversation(Db', conv).name \in PrivateGroupNames
           /\ MembersOf(Db', conv) =
                {[conversationId |-> conv, identityId |-> me.id, role |-> "admin",
                  addedByIdentityId |-> me.id]}
                \cup {[conversationId |-> conv, identityId |-> t.id,
                       role |-> "member", addedByIdentityId |-> me.id] : t \in added}
           /\ \A r \in MembersOf(Db', conv) : participants'[r] = 1
           /\ \A r \in BagToSet(participants) :
                 r \in BagToSet(participants') /\ participants'[r] = participants[r]

\* C14: createGroup always answers with success and a new PRIVATE GROUP
\* conversation whose participants are the actor, as admin, and the targets
\* other than the actor, each once as member with the actor as adder; when
\* the actor is a STUDENT the targets whose role is not STUDENT are left out.
\* No other conversation's participants change.
C14_CreateGroup == [][C14_Step]_vars

\* a student created a group naming a staff member and another student
C14_Witness ==
    /\ last.op = "createGroup" /\ last.status = "ok"
    /\ GetIdentity(Db, last.actor).role = "STUDENT"
    /\ \E k \in DOMAIN last.target :
          /\ GetIdentity(Db, last.target[k]).role = "STAFF"
          /\ MemberCount(Db, last.conversationId, last.target[k]) = 0
    /\ \E k \in DOMAIN last.target :
          /\ last.target[k] # last.actor
          /\ GetIdentity(Db, last.target[k]).role = "STUDENT"
          /\ GetParticipant(Db, last.conversationId, last.target[k]).role = "member"

(***************************************************************************)
(* Messages.  The message tables are passed to the handlers as a record m  *)
(* beside the store d, the clock as t (milliseconds, Date.getTime()).      *)
(***************************************************************************)
EditWindowMinutes == 15
MsPerMinute == 60000
OneSecond == 1000

Ms == [messages |-> messages, nextMessageId |-> nextMessageId,
       updatedAt |-> updatedAt]

SetMs(m) ==
    /\ messages' = m.messages
    /\ nextMessageId' = m.nextMessageId
    /\ updatedAt' = m.updatedAt

NoContent == <<>>

NoMessage == [id |-> NoId, conversationId |-> NoId, senderIdentityId |-> NoId,
              content |-> NoContent, createdAt |-> 0, isEdited |-> FALSE]

\* storage.getMessage
GetMessage(m, messageId) ==
    LET rows == {x \in m.messages : x.id = messageId}
    IN IF rows = {} THEN NoMessage ELSE CHOOSE x \in rows : TRUE

\* storage.createMessage: insert with createdAt: new Date(), read the row
\* back, then update conversations set updatedAt: new Date()
StorageCreateMessage(d, m, t, conversationId, senderIdentityId, content) ==
    LET msg == [id |-> m.nextMessageId, conversationId |-> conversationId,
                senderIdentityId |-> senderIdentityId, content |-> content,
                createdAt |-> t, isEdited |-> FALSE]
    IN [message |-> msg,
        ms |-> [messages |-> m.messages \cup {msg},
                nextMessageId |-> m.nextMessageId + 1,
                updatedAt |-> IF GetConversation(d, conversationId).id # NoId
                              THEN (conversationId :> t) @@ m.updatedAt
                              ELSE m.updatedAt]]

\* storage.updateMessage
StorageUpdateMessage(m, messageId, content) ==
    [m EXCEPT !.messages =
        {IF x.id = messageId THEN [x EXCEPT !.content = content, !.isEdited = TRUE]
         ELSE x : x \in @}]

\* storage.deleteMessage
StorageDeleteMessage(m, messageId) ==
    [m EXCEPT !.messages = {x \in @ : x.id # messageId}]

\* storage.getParticipants, as identity ids: participants joined with identities
GetParticipantIds(d, conversationId) ==
    {r.identityId : r \in {x \in MembersOf(d, conversationId) :
                              GetIdentity(d, x.identityId).id # NoId}}

\* like(messages.content, `%${query}%`), for queries without wildcards
Contains(content, query) ==
    \E i \in 0..(Len(content) - Len(query)) :
        SubSeq(content, i + 1, i + Len(query)) = query

\* the search not restricted to the searcher's conversations
StorageSearchMessages_AllConversations(d, m, query, identityId) ==
    LET conversationIds == {r.conversationId : r \in BagToSet(d.participants)}
    IN IF conversationIds = {} THEN {}
       ELSE {x.id : x \in {y \in m.messages :
                              /\ y.conversationId \in conversationIds
                              /\ Contains(y.content, query)}}

\* storage.searchMessages, as message ids (fewer than 20 rows match)
StorageSearchMessages(d, m, query, identityId) ==
    LET conversationIds == {r.conversationId :
                              r \in {x \in BagToSet(d.participants) :
                                        x.identityId = identityId}}
    IN IF conversationIds = {} THEN {}
       ELSE {x.id : x \in {y \in m.messages :
                              /\ y.conversationId \in conversationIds
                              /\ Contains(y.content, query)}}

NoEvents == <<>>

\* the handler with the test of the actor's membership left out
CreateMessageHandler_NoCheck(d, m, t, meId, conversationId, content) ==
    LET me == GetIdentity(d, meId)
        c == StorageCreateMessage(d, m, t, conversationId, me.id, content)
        recipientIds == GetParticipantIds(d, conversationId)
    IN [status |-> "ok", reason |-> "", ms |-> c.ms, messageId |-> c.message.id,
        events |-> <<[type |-> "new_message", messageId |-> c.message.id,
                      recipientIds |-> recipientIds]>>]

\* the handler with the sender left out of the recipients
CreateMessageHandler_NoEcho(d, m, t, meId, conversationId, content) ==
    LET me == GetIdentity(d, meId)
        participant == GetParticipant(d, conversationId, me.id)
        c == StorageCreateMessage(d, m, t, conversationId, me.id, content)
        recipientIds == GetParticipantIds(d, conversationId) \ {me.id}
    IN IF participant.conversationId = NoId
       THEN [status |-> "forbidden", reason |-> "notmember", ms |-> m,
             messageId |-> NoId, events |-> NoEvents]
       ELSE [status |-> "ok", reason |-> "", ms |-> c.ms, messageId |-> c.message.id,
             events |-> <<[type |-> "new_message", messageId |-> c.message.id,
                           recipientIds |-> recipientIds]>>]

\* POST messages.create handler
CreateMessageHandler(d, m, t, meId, conversationId, content) ==
    LET me == GetIdentity(d, meId)
        participant == GetParticipant(d, conversationId, me.id)
        c == StorageCreateMessage(d, m, t, conversationId, me.id, content)
        recipientIds == GetParticipantIds(d, conversationId)
    IN IF participant.conversationId = NoId
       THEN [status |-> "forbidden", reason |-> "notmember", ms |-> m,
             messageId |-> NoId, events |-> NoEvents]
       ELSE [status |-> "ok", reason |-> "", ms |-> c.ms, messageId |-> c.message.id,
             events |-> <<[type |-> "new_message", messageId |-> c.message.id,
                           recipientIds |-> recipientIds]>>]

\* the handler with the window closed at exactly 15 minutes
EditMessageHandler_Strict(d, m, t, meId, messageId, content) ==
    LET me == GetIdentity(d, meId)
        message == GetMessage(m, messageId)
        isSender == message.senderIdentityId = me.id
        diffMs == t - message.createdAt
    IN IF message.id = NoId
       THEN [status |-> "notfound", reason |-> "", ms |-> m]
       ELSE IF ~isSender
       THEN [status |-> "forbidden", reason |-> "notsender", ms |-> m]
       ELSE IF diffMs >= EditWindowMinutes * MsPerMinute
       THEN [status |-> "forbidden", reason |-> "expired", ms |-> m]
       ELSE [status |-> "ok", reason |-> "",
             ms |-> StorageUpdateMessage(m, messageId, content)]

\* PATCH /api/messages/:id
EditMessageHandler(d, m, t, meId, messageId, content) ==
    LET me == GetIdentity(d, meId)
        message == GetMessage(m, messageId)
        isSender == message.senderIdentityId = me.id
        diffMs == t - message.createdAt
    IN IF message.id = NoId
       THEN [status |-> "notfound", reason |-> "", ms |-> m]
       ELSE IF ~isSender
       THEN [status |-> "forbidden", reason |-> "notsender", ms |-> m]
       ELSE IF diffMs > EditWindowMinutes * MsPerMinute
       THEN [status |-> "forbidden", reason |-> "expired", ms |-> m]
       ELSE [status |-> "ok", reason |-> "",
             ms |-> StorageUpdateMessage(m, messageId, content)]

\* the handler that deletes before it checks
DeleteMessageHandler_DeleteFirst(d, m, meId, messageId) ==
    LET me == GetIdentity(d, meId)
        message == GetMessage(m, messageId)
        isSystemAdmin == me.role \in SystemAdminRoles
        isSender == message.senderIdentityId = me.id
        participant == GetParticipant(d, message.conversationId, me.id)
        isGroupAdmin == participant.role \in {"admin", "co-admin"}
    IN IF message.id = NoId
       THEN [status |-> "notfound", reason |-> "", ms |-> m]
       ELSE IF isSystemAdmin \/ isSender \/ isGroupAdmin
       THEN [status |-> "ok", reason |-> "", ms |-> StorageDeleteMessage(m, messageId)]
       ELSE [status |-> "forbidden", reason |-> "denied",
             ms |-> StorageDeleteMessage(m, messageId)]

\* the handler with co-admins not let through
DeleteMessageHandler_AdminOnly(d, m, meId, messageId) ==
    LET me == GetIdentity(d, meId)
        message == GetMessage(m, messageId)
        isSystemAdmin == me.role \in SystemAdminRoles
        isSender == message.senderIdentityId = me.id
        participant == GetParticipant(d, message.conversationId, me.id)
        isGroupAdmin == participant.role = "admin"
    IN IF message.id = NoId
       THEN [status |-> "notfound", reason |-> "", ms |-> m]
       ELSE IF isSystemAdmin \/ isSender \/ isGroupAdmin
       THEN [status |-> "ok", reason |-> "", ms |-> StorageDeleteMessage(m, messageId)]
       ELSE [status |-> "forbidden", reason |-> "denied", ms |-> m]

\* DELETE /api/messages/:id
DeleteMessageHandler(d, m, meId, messageId) ==
    LET me == GetIdentity(d, meId)
        message == GetMessage(m, messageId)
        isSystemAdmin == me.role \in SystemAdminRoles
        isSender == message.senderIdentityId = me.id
        participant == GetParticipant(d, message.conversationId, me.id)
        isGroupAdmin == participant.role \in {"admin", "co-admin"}
    IN IF message.id = NoId
       THEN [status |-> "notfound", reason |-> "", ms |-> m]
       ELSE IF isSystemAdmin \/ isSender \/ isGroupAdmin
       THEN [status |-> "ok", reason |-> "", ms |-> StorageDeleteMessage(m, messageId)]
       ELSE [status |-> "forbidden", reason |-> "denied", ms |-> m]

(***************************************************************************)
(* SpecMessages: sending, editing and deleting messages, one handler at a  *)
(* time, while time passes.  The store is RolesStore, with the second      *)
(* student a member or a co-admin of the group, and one message the first  *)
(* student sent to the group at time 0.                                    *)
(***************************************************************************)
Student3 == SelectIdentityByEntity(RolesStore, "student", 3).id

RolesGroup == (CHOOSE c \in RolesStore.conversations : c.type = "GROUP").id

EmptyMs == [messages |-> {}, nextMessageId |-> 1, updatedAt |-> <<>>]

Contents == {<<"a">>, <<"a", "b">>}

\* the new content of an edit
EditContents == {<<"b">>}

Queries == {<<"a">>, <<"b">>}

EditWindowMs == EditWindowMinutes * MsPerMinute

\* the instants the clock is read at
Instants ==
    {0, EditWindowMs - OneSecond, EditWindowMs, EditWindowMs + 1,
     EditWindowMs + OneSecond}

MessageStores ==
    {RolesStore, ChangeRoleHandler(RolesStore, Staff1, RolesGroup, Student3, "co-admin").db}

\* store d with the first student's message, sent at time 0
StoreWithMessage(d) ==
    /\ identities = d.identities
    /\ nextIdentityId = d.nextIdentityId
    /\ conversations = d.conversations
    /\ nextConversationId = d.nextConversationId
    /\ participants = d.participants
    /\ LET r == CreateMessageHandler(d, EmptyMs, 0, Student1, RolesGroup, <<"a", "b">>)
       IN /\ messages = r.ms.messages
          /\ nextMessageId = r.ms.nextMessageId
          /\ updatedAt = r.ms.updatedAt
    /\ now = 0
    /\ last = [op |-> "none"]
    /\ opCount = 0
    /\ calls = <<>>
    /\ codec = NoCodec
    /\ NoHub

InitMessages == \E d \in MessageStores : StoreWithMessage(d)

MessageIds == {x.id : x \in messages}

\* message ids of a request: the existing ones and one that is not
RequestMessageIds == MessageIds \cup {nextMessageId}

\* The response of a message handler with the request it answers; sender is
\* the senderIdentityId of the message the handler read or wrote.
RespondMessage(op, actor, conversationId, messageId, sender, text, events, result, r) ==
    /\ opCount < MaxOps
    /\ opCount' = opCount + 1
    /\ SetMs(r.ms)
    /\ last' = [op |-> op, actor |-> actor, conversationId |-> conversationId,
                messageId |-> messageId, sender |-> sender, text |-> text,
                status |-> r.status, reason |-> r.reason, events |-> events,
                result |-> result]
    /\ UNCHANGED <<dbVars, now, calls, codec, hubVars>>

CreateMessage(me, conversationId, content) ==
    LET r == CreateMessageHandler(Db, Ms, now, me, conversationId, content)
    IN RespondMessage("createMessage", me, conversationId, r.messageId, me, content,
                      r.events, {}, r)

EditMessage(me, messageId, content) ==
    LET message == GetMessage(Ms, messageId)
    IN RespondMessage("editMessage", me, message.conversationId, messageId,
                      message.senderIdentityId, content, NoEvents, {},
                      EditMessageHandler(Db, Ms, now, me, messageId, content))

DeleteMessage(me, messageId) ==
    LET message == GetMessage(Ms, messageId)
    IN RespondMessage("deleteMessage", me, message.conversationId, messageId,
                      message.senderIdentityId, NoContent, NoEvents, {},
                      DeleteMessageHandler(Db, Ms, me, messageId))

\* GET /api/messages/search
SearchMessages(me, q) ==
    RespondMessage("searchMessages", me, NoId, NoId, NoId, q, NoEvents,
                   StorageSearchMessages(Db, Ms, q, me),
                   [status |-> "ok", reason |-> "", ms |-> Ms])

\* time passes
Tick ==
    /\ \E t \in Instants : t > now /\ now' = t
    /\ UNCHANGED <<dbVars, last, opCount, calls, codec, messages, nextMessageId,
                   updatedAt, hubVars>>

NextMessages ==
    \/ \E me \in Actors, c \in RequestConversationIds, content \in Contents :
          CreateMessage(me, c, content)
    \/ \E me \in Actors, x \in RequestMessageIds, content \in EditContents :
          EditMessage(me, x, content)
    \/ \E me \in Actors, x \in RequestMessageIds : DeleteMessage(me, x)
    \/ Tick

SpecMessages == InitMessages /\ [][NextMessages]_vars

(***************************************************************************)
(* SpecSearch: sending, searching and the removal of participants, one     *)
(* handler at a time, from RolesStore with the first student's message.    *)
(***************************************************************************)
InitSearch == StoreWithMessage(RolesStore)

NextSearch ==
    \/ \E me \in Actors, c \in ConversationIds, content \in Contents :
          CreateMessage(me, c, content)
    \/ \E me \in Actors, q \in Queries : SearchMessages(me, q)
    \/ \E me \in Actors, c \in ConversationIds, t \in Actors :
          RemoveParticipant(me, c, t)

SpecSearch == InitSearch /\ [][NextSearch]_vars

(***************************************************************************)
(* Properties of the message handlers                                      *)
(***************************************************************************)
\* this step is the handling of a request
Handled == opCount' = opCount + 1

MessagesUnchanged ==
    messages' = messages /\ nextMessageId' = nextMessageId /\ updatedAt' = updatedAt

C15_Step ==
    (Handled /\ last'.op = "createMessage") =>
        IF MemberCount(Db, last'.conversationId, last'.actor) = 0
        THEN /\ last'.status = "forbidden"
             /\ MessagesUnchanged
             /\ last'.events = NoEvents
        ELSE /\ last'.status = "ok"
             /\ last'.messageId \notin MessageIds
             /\ messages' = messages \cup
                    {[id |-> last'.messageId, conversationId |-> last'.conversationId,
                      senderIdentityId |-> last'.actor, content |-> last'.text,
                      createdAt |-> now, isEdited |-> FALSE]}
             /\ updatedAt'[last'.conversationId] = now

\* C15: createMessage by an actor who is no participant of the conversation
\* is Forbidden, persists no message, bumps no updatedAt and issues no
\* fan-out; by a participant it is accepted, the message persisted with the
\* actor as sender and the conversation's updatedAt bumped.
C15_CreateRequiresMember == [][C15_Step]_vars

\* the HOD, no participant of the group, was refused a message to it
C15_Witness ==
    /\ last.op = "createMessage" /\ last.status = "forbidden"
    /\ GetConversation(Db, last.conversationId).type = "GROUP"
    /\ GetIdentity(Db, last.actor).role = "HOD"
    /\ MemberCount(Db, last.conversationId, last.actor) = 0

C16_Step ==
    (Handled /\ last'.op = "createMessage" /\ last'.status = "ok") =>
        /\ Len(last'.events) = 1
        /\ last'.events[1].type = "new_message"
        /\ last'.events[1].messageId = last'.messageId
        /\ last'.events[1].recipientIds =
              {r.identityId : r \in MembersOf(Db', last'.conversationId)}
        /\ last'.actor \in last'.events[1].recipientIds

\* C16: every accepted createMessage issues exactly one new_message fan-out,
\* for the message it persisted, to all participants of the conversation,
\* the sender among them.
C16_FanoutToAll == [][C16_Step]_vars

\* a message to the group went out to its three participants
C16_Witness ==
    /\ last.op = "createMessage" /\ last.status = "ok"
    /\ Len(last.events) = 1
    /\ Cardinality(last.events[1].recipientIds) = 3
    /\ GetMessage(Ms, last.messageId).senderIdentityId = last.actor

\* 15 minutes, and one second, in milliseconds
FifteenMinutes == 15 * 60 * 1000

C18_Step ==
    (Handled /\ last'.op = "editMessage" /\ last'.status # "notfound") =>
        LET message == GetMessage(Ms, last'.messageId)
            isSender == message.senderIdentityId = last'.actor
        IN IF isSender /\ now - message.createdAt <= FifteenMinutes
           THEN /\ last'.status = "ok"
                /\ messages' = (messages \ {message}) \cup
                       {[message EXCEPT !.content = last'.text, !.isEdited = TRUE]}
           ELSE /\ last'.status = "forbidden"
                /\ last'.reason = IF isSender THEN "expired" ELSE "notsender"
                /\ messages' = messages

\* C18: the edit of an existing message succeeds, setting content and
\* isEdited, exactly when the actor is its sender and now - createdAt is at
\* most 15 minutes; the sender after that is Forbidden as window-expired,
\* anyone else is Forbidden as not-sender at any time, and then the message
\* is unchanged.
C18_EditWindow == [][C18_Step]_vars

\* the sender edited its message exactly 15 minutes after sending it
C18_Witness ==
    /\ last.op = "editMessage" /\ last.status = "ok"
    /\ last.sender = last.actor
    /\ now - GetMessage(Ms, last.messageId).createdAt = FifteenMinutes
    /\ GetMessage(Ms, last.messageId).isEdited
    /\ GetMessage(Ms, last.messageId).content = last.text

C19_Step ==
    (Handled /\ last'.op = "deleteMessage" /\ last'.status # "notfound") =>
        LET me == GetIdentity(Db, last'.actor)
            message == GetMessage(Ms, last'.messageId)
            meParticipant == GetParticipant(Db, message.conversationId, me.id)
        IN IF \/ me.role \in {"ADMIN", "SUPER_ADMIN", "HOD", "DEAN", "VC"}
              \/ message.senderIdentityId = me.id
              \/ meParticipant.role \in {"admin", "co-admin"}
           THEN last'.status = "ok" /\ messages' = messages \ {message}
           ELSE last'.status = "forbidden" /\ messages' = messages

\* C19: the deletion of an existing message succeeds, removing that message
\* only, if and only if the actor holds a system-admin role, is the sender,
\* or is admin or co-admin of the message's conversation; otherwise it is
\* Forbidden and the message stays.
C19_DeleteAuthorized == [][C19_Step]_vars

\* a co-admin student deleted another participant's message
C19_Witness ==
    /\ last.op = "deleteMessage" /\ last.status = "ok"
    /\ last.sender # last.actor
    /\ GetIdentity(Db, last.actor).role = "STUDENT"
    /\ GetParticipant(Db, last.conversationId, last.actor).role = "co-admin"
    /\ last.messageId \notin MessageIds

(***************************************************************************)
(* Properties of the search, under SpecSearch.                             *)
(***************************************************************************)
C20_Step ==
    (Handled /\ last'.op = "searchMessages") =>
        /\ last'.status = "ok"
        /\ \A x \in last'.result :
              /\ GetMessage(Ms, x).id = x
              /\ MemberCount(Db, GetMessage(Ms, x).conversationId, last'.actor) > 0
        /\ \A y \in messages :
              (/\ MemberCount(Db, y.conversationId, last'.actor) > 0
               /\ Contains(y.content, last'.text)) => y.id \in last'.result
        /\ MessagesUnchanged /\ Db' = Db

\* C20: searchMessages returns only messages of conversations in which the
\* actor has a participant row at the time of the search (and, of those,
\* every message whose content contains the query), and changes nothing.
C20_SearchScoped == [][C20_Step]_vars

\* an identity removed from a group searched for a text that a message of
\* that group contains, and did not get that message
C20_Witness ==
    /\ last.op = "searchMessages"
    /\ \E y \in messages :
          /\ Contains(y.content, last.text)
          /\ y.id \notin last.result
          /\ y.senderIdentityId = last.actor
          /\ MemberCount(Db, y.conversationId, last.actor) = 0

(***************************************************************************)
(* SpecFanout: POST messages.create interleaved at its awaits, with the    *)
(* deletion of messages and the passing of time in between.  Each caller   *)
(* makes one request; last is the new_message event notifyList was last    *)
(* called with.                                                            *)
(***************************************************************************)

\* the order with the event sent before the message is stored
CreateMessageOrder_NotifyFirst ==
    <<"participants", "notify", "insert", "select", "bump">>

\* the awaits of the handler after the membership check, in order:
\* storage.createMessage (insert, read back, update of updatedAt),
\* storage.getParticipants, notifyList
CreateMessageOrder == <<"insert", "select", "bump", "participants", "notify">>

StepAfter(pc) ==
    LET i == CHOOSE k \in 1..Len(CreateMessageOrder) : CreateMessageOrder[k] = pc
    IN IF i = Len(CreateMessageOrder) THEN "done" ELSE CreateMessageOrder[i + 1]

FanoutContent == <<"a">>

\* the requests: by a participant of the group and by a non-participant
FanoutRequests == {<<Student1, RolesGroup>>, <<Hod2, RolesGroup>>}

\* the instants the clock is read at
FanoutInstants == {0, OneSecond}

FanoutCall(me, conversationId) ==
    [pc |-> "idle", me |-> me, conversationId |-> conversationId,
     insertId |-> NoId, insertedAt |-> 0, message |-> NoMessage,
     recipientIds |-> {}, status |-> ""]

InitFanout ==
    /\ identities = RolesStore.identities
    /\ nextIdentityId = RolesStore.nextIdentityId
    /\ conversations = RolesStore.conversations
    /\ nextConversationId = RolesStore.nextConversationId
    /\ participants = RolesStore.participants
    /\ LET r == CreateMessageHandler(RolesStore, EmptyMs, 0, Student1, RolesGroup,
                                     <<"a", "b">>)
       IN /\ messages = r.ms.messages
          /\ nextMessageId = r.ms.nextMessageId
          /\ updatedAt = r.ms.updatedAt
    /\ now = 0
    /\ last = [op |-> "none"]
    /\ opCount = 0
    /\ calls = [c \in Callers |-> IdleCall]
    /\ codec = NoCodec
    /\ NoHub

\* getMe and storage.getParticipant: 403 for a non-participant
FanoutCheck(c, meId, conversationId) ==
    /\ calls[c].pc = "idle"
    /\ LET me == GetIdentity(Db, meId)
           participant == GetParticipant(Db, conversationId, me.id)
           call == FanoutCall(meId, conversationId)
       IN calls' = [calls EXCEPT ![c] =
            IF participant.conversationId = NoId
            THEN Done(call, "forbidden")
            ELSE [call EXCEPT !.pc = CreateMessageOrder[1]]]
    /\ UNCHANGED <<dbVars, last, opCount, codec, msgVars, hubVars>>

\* db.insert(messages).values({...message, createdAt: new Date()})
FanoutInsert(c) ==
    /\ calls[c].pc = "insert"
    /\ messages' = messages \cup
          {[id |-> nextMessageId, conversationId |-> calls[c].conversationId,
            senderIdentityId |-> calls[c].me, content |-> FanoutContent,
            createdAt |-> now, isEdited |-> FALSE]}
    /\ nextMessageId' = nextMessageId + 1
    /\ calls' = [calls EXCEPT ![c] =
          [@ EXCEPT !.pc = StepAfter("insert"), !.insertId = nextMessageId,
                    !.insertedAt = now]]
    /\ UNCHANGED <<dbVars, last, opCount, codec, updatedAt, now, hubVars>>

\* db.select().from(messages).where(eq(messages.id, result.insertId))
FanoutSelect(c) ==
    /\ calls[c].pc = "select"
    /\ calls' = [calls EXCEPT ![c] =
          [@ EXCEPT !.pc = StepAfter("select"),
                    !.message = GetMessage(Ms, calls[c].insertId)]]
    /\ UNCHANGED <<dbVars, last, opCount, codec, msgVars, hubVars>>

\* db.update(conversations).set({updatedAt: new Date()})
FanoutBump(c) ==
    /\ calls[c].pc = "bump"
    /\ updatedAt' = IF GetConversation(Db, calls[c].conversationId).id # NoId
                    THEN (calls[c].conversationId :> now) @@ updatedAt
                    ELSE updatedAt
    /\ calls' = [calls EXCEPT ![c] = [@ EXCEPT !.pc = StepAfter("bump")]]
    /\ UNCHANGED <<dbVars, last, opCount, codec, messages, nextMessageId, now,
                   hubVars>>

\* storage.getParticipants(conversationId)
FanoutParticipants(c) ==
    /\ calls[c].pc = "participants"
    /\ calls' = [calls EXCEPT ![c] =
          [@ EXCEPT !.pc = StepAfter("participants"),
                    !.recipientIds = GetParticipantIds(Db, calls[c].conversationId)]]
    /\ UNCHANGED <<dbVars, last, opCount, codec, msgVars, hubVars>>

\* notifyList(recipientIds, {type: 'new_message', message: {...message}})
\* and the 201 response
FanoutNotify(c) ==
    /\ calls[c].pc = "notify"
    /\ last' = [op |-> "new_message", caller |-> c,
                conversationId |-> calls[c].conversationId,
                messageId |-> calls[c].message.id,
                recipientIds |-> calls[c].recipientIds]
    /\ calls' = [calls EXCEPT ![c] =
          [@ EXCEPT !.pc = StepAfter("notify"),
                    !.status = IF StepAfter("notify") = "done" THEN "ok" ELSE ""]]
    /\ UNCHANGED <<dbVars, opCount, codec, msgVars, hubVars>>

\* time passes
FanoutTick ==
    /\ \E t \in FanoutInstants : t > now /\ now' = t
    /\ UNCHANGED <<dbVars, last, opCount, calls, codec, messages, nextMessageId,
                   updatedAt, hubVars>>

NextFanout ==
    \/ \E c \in Callers, r \in FanoutRequests : FanoutCheck(c, r[1], r[2])
    \/ \E c \in Callers : FanoutInsert(c)
    \/ \E c \in Callers : FanoutSelect(c)
    \/ \E c \in Callers : FanoutBump(c)
    \/ \E c \in Callers : FanoutParticipants(c)
    \/ \E c \in Callers : FanoutNotify(c)
    \/ \E x \in MessageIds : DeleteMessage(Hod2, x)
    \/ FanoutTick

SpecFanout == InitFanout /\ [][NextFanout]_vars

\* the ids the message table has given out
InsertedIds == 1..(nextMessageId - 1)

C17_Step ==
    \A c \in Callers :
        (calls[c].pc = "notify" /\ calls'[c].pc # "notify") =>
            /\ calls[c].insertId \in InsertedIds
            /\ last'.messageId \in {NoId, calls[c].insertId}
            /\ calls[c].conversationId \in DOMAIN updatedAt
            /\ updatedAt[calls[c].conversationId] >= calls[c].insertedAt

\* C17: whenever the handler issues the new_message fan-out of a request,
\* the row of that request's message has already been inserted and the
\* conversation's updatedAt has been set at or after the insertion; the
\* event never carries the id of a message that was not inserted.
C17_PersistBeforeFanout == [][C17_Step]_vars

\* an event was issued for a stored message while another request had
\* inserted its message and not yet issued its event
C17_Witness ==
    /\ last.op = "new_message"
    /\ last.messageId \in MessageIds
    /\ now > 0
    /\ \E c \in Callers :
          /\ calls[c].pc \in {"select", "bump", "participants", "notify"}
          /\ calls[c].insertId > last.messageId

(***************************************************************************)
(* The websocket hub (server/websocket.ts).  A socket is a record          *)
(*   identityId  ws.identityId                                             *)
(*   readyState  OPEN, CLOSING or CLOSED; wss.clients holds the sockets    *)
(*               that are not CLOSED                                       *)
(*   isAlive     ws.isAlive                                                *)
(*   pc          the position of the connection handler: "status" while    *)
(*               it awaits updateIdentityStatus(id, true), before the      *)
(*               pong, message and close listeners are registered;         *)
(*               "ready" with the listeners registered; "offline" while    *)
(*               the close listener awaits updateIdentityStatus(id,        *)
(*               false); "done" after it                                   *)
(*   answered    the peer has answered the last ping sent to it (or none   *)
(*               was sent); what the peer did, not what the hub saw        *)
(***************************************************************************)
MaxConns == 2

Conns == 1..MaxConns

MaxTicks == 3

\* wss.clients
WssClients == {c \in DOMAIN clients : clients[c].readyState # "CLOSED"}

NewSocket(identityId) ==
    [identityId |-> identityId, readyState |-> "OPEN", isAlive |-> TRUE,
     pc |-> "status", answered |-> TRUE]

\* storage.updateIdentityStatus
UpdateIdentityStatus(o, id, isOnline) ==
    [i \in DOMAIN o |-> IF i = id THEN isOnline ELSE o[i]]

\* the close listener that marks the identity offline only when no other
\* socket of the identity is left in wss.clients
CloseMarksOffline_LastOnly(c) ==
    \A x \in WssClients \ {c} : clients[x].identityId # clients[c].identityId

\* the close listener: updateIdentityStatus(identityId, false), whatever the
\* other sockets of the identity
CloseMarksOffline(c) == TRUE

\* the pong listener registered before the await
PongListener_Early(x) == TRUE

\* ws.on("pong") exists once the handler is past its await
PongListener(x) == x.pc = "ready"

\* wss.on("connection") up to the await of updateIdentityStatus(id, true)
HubConnect(c, identityId) ==
    /\ c \notin DOMAIN clients
    /\ clients' = (c :> NewSocket(identityId)) @@ clients
    /\ UNCHANGED <<dbVars, last, opCount, calls, codec, msgVars, online, inbox>>

\* the update is done and the handler registers its listeners; a close
\* event emitted before that had no listener
HubStatusOnline(c) ==
    /\ c \in DOMAIN clients
    /\ clients[c].pc = "status"
    /\ online' = UpdateIdentityStatus(online, clients[c].identityId, TRUE)
    /\ clients' = [clients EXCEPT ![c].pc =
                      IF clients[c].readyState = "CLOSED" THEN "done" ELSE "ready"]
    /\ UNCHANGED <<dbVars, last, opCount, calls, codec, msgVars, inbox>>

\* the peer or the hub starts closing the socket
HubClosing(c) ==
    /\ c \in DOMAIN clients
    /\ clients[c].readyState = "OPEN"
    /\ clients' = [clients EXCEPT ![c].readyState = "CLOSING"]
    /\ UNCHANGED <<dbVars, last, opCount, calls, codec, msgVars, online, inbox>>

\* the socket is closed: it leaves wss.clients and "close" is emitted
HubClosed(c) ==
    /\ c \in WssClients
    /\ clients' = [clients EXCEPT ![c].readyState = "CLOSED",
                                  ![c].pc = IF @ = "ready" THEN "offline" ELSE @]
    /\ UNCHANGED <<dbVars, last, opCount, calls, codec, msgVars, online, inbox>>

\* ws.on("close"): await storage.updateIdentityStatus(identityId, false)
HubStatusOffline(c) ==
    /\ c \in DOMAIN clients
    /\ clients[c].pc = "offline"
    /\ online' = IF CloseMarksOffline(c)
                 THEN UpdateIdentityStatus(online, clients[c].identityId, FALSE)
                 ELSE online
    /\ clients' = [clients EXCEPT ![c].pc = "done"]
    /\ UNCHANGED <<dbVars, last, opCount, calls, codec, msgVars, inbox>>

\* one socket in the heartbeat: terminate() when isAlive is false, else
\* isAlive = false and ping()
HeartbeatSocket(x) ==
    IF x.isAlive = FALSE
    THEN [x EXCEPT !.readyState = "CLOSING"]
    ELSE [x EXCEPT !.isAlive = FALSE,
                   !.answered = IF x.readyState = "OPEN" THEN FALSE ELSE @]

\* the setInterval callback, over wss.clients
HeartbeatTick ==
    /\ opCount < MaxTicks
    /\ opCount' = opCount + 1
    /\ clients' = [c \in DOMAIN clients |->
                      IF c \in WssClients THEN HeartbeatSocket(clients[c])
                      ELSE clients[c]]
    /\ last' = [op |-> "heartbeat", terminated |->
                  {c \in WssClients : clients[c].isAlive = FALSE}]
    /\ UNCHANGED <<dbVars, calls, codec, msgVars, online, inbox>>

\* the peer answers the ping; ws.on("pong") sets isAlive if it is registered
HubPong(c) ==
    /\ c \in DOMAIN clients
    /\ clients[c].readyState = "OPEN"
    /\ ~clients[c].answered
    /\ clients' = [clients EXCEPT ![c].answered = TRUE,
                                  ![c].isAlive = IF PongListener(clients[c])
                                                 THEN TRUE ELSE @]
    /\ UNCHANGED <<dbVars, last, opCount, calls, codec, msgVars, online, inbox>>

(***************************************************************************)
(* SpecPresence: sockets of two identities connect, answer or ignore       *)
(* pings and close, with the status updates interleaved.                   *)
(***************************************************************************)
PresenceIdentities == {Student1, Staff1}

InitPresence ==
    /\ identities = FreshStore.identities
    /\ nextIdentityId = FreshStore.nextIdentityId
    /\ conversations = {}
    /\ nextConversationId = 1
    /\ participants = EmptyBag
    /\ last = [op |-> "none"]
    /\ opCount = 0
    /\ calls = <<>>
    /\ codec = NoCodec
    /\ NoMessages
    /\ clients = <<>>
    /\ online = [i \in {x.id : x \in FreshStore.identities} |-> FALSE]
    /\ inbox = <<>>

NextPresence ==
    \/ \E c \in Conns, i \in PresenceIdentities : HubConnect(c, i)
    \/ \E c \in Conns : HubStatusOnline(c)
    \/ \E c \in Conns : HubClosing(c)
    \/ \E c \in Conns : HubClosed(c)
    \/ \E c \in Conns : HubStatusOffline(c)
    \/ \E c \in Conns : HubPong(c)
    \/ HeartbeatTick

SpecPresence == InitPresence /\ [][NextPresence]_vars

\* every connection and close handler has run to its end
HandlersCompleted == \A c \in DOMAIN clients : clients[c].pc \in {"ready", "done"}

\* C21: when every connection and close handler has completed, an identity
\* with at least one open socket is marked online.
C21_OnlineWhileConnected ==
    HandlersCompleted =>
        \A c \in DOMAIN clients :
            clients[c].readyState = "OPEN" => online[clients[c].identityId]

\* C23: at a heartbeat tick an open socket is terminated if and only if its
\* peer has not answered the ping of the previous tick; a socket that was
\* never pinged or whose peer answered every ping is not terminated.
C23_Step ==
    Handled =>
        \A c \in DOMAIN clients :
            clients[c].readyState = "OPEN" =>
                (clients'[c].readyState = "CLOSING" <=> ~clients[c].answered)

C23_Heartbeat == [][C23_Step]_vars

(***************************************************************************)
(* notifyList and the message listener of a socket.                        *)
(***************************************************************************)
Range(q) == {q[k] : k \in 1..Len(q)}

RECURSIVE SeqOf(_)
\* the elements of a set of ids as an array
SeqOf(S) ==
    IF S = {} THEN <<>>
    ELSE LET x == CHOOSE y \in S : \A z \in S : y <= z
         IN <<x>> \o SeqOf(S \ {x})

\* notifyList that does not look at readyState
NotifyList_AnyState(cl, identityIds, payload) ==
    [c \in {x \in DOMAIN cl :
               /\ cl[x].readyState # "CLOSED"
               /\ cl[x].identityId # NoId
               /\ \E k \in 1..Len(identityIds) : identityIds[k] = cl[x].identityId}
        |-> <<payload>>]

\* notifyList: client.send(payloadStr) for each client of wss.clients that
\* is OPEN and whose identityId is included in identityIds; the result is
\* what was sent, by connection
NotifyList(cl, identityIds, payload) ==
    [c \in {x \in DOMAIN cl :
               /\ cl[x].readyState # "CLOSED"
               /\ cl[x].readyState = "OPEN"
               /\ cl[x].identityId # NoId
               /\ \E k \in 1..Len(identityIds) : identityIds[k] = cl[x].identityId}
        |-> <<payload>>]

\* what the last notifyList call sent on connection c
Sent(ib, c) == IF c \in DOMAIN ib THEN ib[c] ELSE <<>>

\* the typing recipients of a sender that must be a participant itself
TypingRecipients_FromMember(d, conversationId, identityId) ==
    IF identityId \in GetParticipantIds(d, conversationId)
    THEN SeqOf(GetParticipantIds(d, conversationId) \ {identityId})
    ELSE <<>>

\* the typing recipients without the filter on the sender
TypingRecipients_WithSender(d, conversationId, identityId) ==
    SeqOf(GetParticipantIds(d, conversationId))

\* case "typing": the participants' identity ids, without the sender's
TypingRecipients(d, conversationId, identityId) ==
    SeqOf(GetParticipantIds(d, conversationId) \ {identityId})

\* the call recipients with every connected identity added
CallRecipients_Broadcast(cl, targetIdentityId) ==
    SeqOf({cl[c].identityId : c \in DOMAIN cl} \cup {targetIdentityId})

\* cases "call_request", "call_accepted", "call_ended", "call_signal":
\* [targetIdentityId]
CallRecipients(cl, targetIdentityId) == <<targetIdentityId>>

CallTypes == {"call_request", "call_accepted", "call_ended", "call_signal"}

\* the type of the payload a call message is forwarded as
CallPayloadType(type) == IF type = "call_request" THEN "call_incoming" ELSE type

\* a notifyList call and what it is recorded as; seq tells a call from the
\* same call made just before it
HubSend(op, c, identityIds, payload) ==
    /\ inbox' = NotifyList(clients, identityIds, payload)
    /\ last' = [op |-> op, conn |-> c, identityIds |-> identityIds,
                payload |-> payload,
                seq |-> IF last.op = "none" THEN FALSE ELSE ~last.seq]
    /\ UNCHANGED <<dbVars, opCount, calls, codec, msgVars, clients, online>>

\* notifyList called by a route handler
HubNotify(identityIds) ==
    HubSend("notify", NoId, identityIds,
            [type |-> "new_message", from |-> NoId, conversationId |-> NoId])

\* ws.on("message"), case "typing"
HubTyping(c, conversationId) ==
    /\ c \in DOMAIN clients
    /\ clients[c].pc = "ready"
    /\ HubSend("typing", c,
               TypingRecipients(Db, conversationId, clients[c].identityId),
               [type |-> "typing", from |-> clients[c].identityId,
                conversationId |-> conversationId])

\* ws.on("message"), the call cases
HubCall(c, type, targetIdentityId) ==
    /\ c \in DOMAIN clients
    /\ clients[c].pc = "ready"
    /\ HubSend(type, c, CallRecipients(clients, targetIdentityId),
               [type |-> CallPayloadType(type), from |-> clients[c].identityId,
                conversationId |-> NoId])

(***************************************************************************)
(* SpecHub: route handlers and the sockets' messages call notifyList while  *)
(* accepted sockets start closing, over RolesStore.                        *)
(***************************************************************************)
HubIdentities == {Student1, Staff1, Hod2}

\* the arrays of identity ids a route handler passes
NotifyIdLists ==
    {<<>>} \cup {<<a>> : a \in HubIdentities}
           \cup {<<a, b>> : a \in {Student1}, b \in HubIdentities}

\* a socket whose handler is past its await
ReadySocket(identityId) == [NewSocket(identityId) EXCEPT !.pc = "ready"]

\* the sockets of the hub after each connection was accepted for one of the
\* identities and its handler has registered the listeners
HubSockets == [Conns -> {ReadySocket(i) : i \in HubIdentities}]

InitHub ==
    /\ identities = RolesStore.identities
    /\ nextIdentityId = RolesStore.nextIdentityId
    /\ conversations = RolesStore.conversations
    /\ nextConversationId = RolesStore.nextConversationId
    /\ participants = RolesStore.participants
    /\ last = [op |-> "none"]
    /\ opCount = 0
    /\ calls = <<>>
    /\ codec = NoCodec
    /\ NoMessages
    /\ clients \in HubSockets
    /\ online = [i \in {x.id : x \in RolesStore.identities} |->
                    \E c \in Conns : clients[c].identityId = i /\ clients[c].pc = "ready"]
    /\ inbox = <<>>

NextHub ==
    \/ \E c \in Conns : HubClosing(c)
    \/ \E ids \in NotifyIdLists : HubNotify(ids)
    \/ \E c \in Conns, x \in ConversationIds : HubTyping(c, x)
    \/ \E c \in Conns, t \in CallTypes, i \in HubIdentities : HubCall(c, t, i)

SpecHub == InitHub /\ [][NextHub]_vars

\* the step is a notifyList call
Notified == last' # last

C22_Step ==
    IF Notified
    THEN \A c \in Conns :
            Sent(inbox', c) =
                IF /\ c \in DOMAIN clients
                   /\ clients[c].readyState = "OPEN"
                   /\ clients[c].identityId \in Range(last'.identityIds)
                THEN <<last'.payload>>
                ELSE <<>>
    ELSE inbox' = inbox

\* C22: a notifyList call sends the payload exactly once on every socket
\* that is open and whose identity id is in the array, whatever the
\* repetitions in the array, and nothing on any other socket; no other step
\* sends anything, so nothing is kept for a socket that was not open.
C22_NotifyExactlyOnce == [][C22_Step]_vars

\* an array naming an identity twice was notified; both open sockets of that
\* identity got the payload once
C22_Witness ==
    /\ last.op = "notify"
    /\ Len(last.identityIds) > Cardinality(Range(last.identityIds))
    /\ \E c1 \in DOMAIN clients, c2 \in DOMAIN clients :
          /\ c1 # c2
          /\ clients[c1].identityId = clients[c2].identityId
          /\ Sent(inbox, c1) = <<last.payload>>
          /\ Sent(inbox, c2) = <<last.payload>>

\* a socket that is closing was skipped by the call that named its identity
C22_WitnessSkipped ==
    /\ last.op = "notify"
    /\ \E c \in DOMAIN clients :
          /\ clients[c].readyState = "CLOSING"
          /\ clients[c].identityId \in Range(last.identityIds)
          /\ Sent(inbox, c) = <<>>
    /\ \E c \in DOMAIN clients : Sent(inbox, c) # <<>>

C24_Step ==
    (Notified /\ last'.op = "typing") =>
        LET sender == clients[last'.conn].identityId
            members == {r.identityId :
                          r \in MembersOf(Db, last'.payload.conversationId)}
        IN /\ Range(last'.identityIds) = members \ {sender}
           /\ \A c \in Conns :
                 Sent(inbox', c) # <<>> =>
                    /\ clients[c].identityId # sender
                    /\ clients[c].identityId \in members
                    /\ Sent(inbox', c) = <<[type |-> "typing", from |-> sender,
                          conversationId |-> last'.payload.conversationId]>>
           /\ UNCHANGED <<dbVars, msgVars>>

\* C24: a typing message received on a socket is sent to the participants
\* of the named conversation other than the sender's identity: no socket
\* of the sender and no socket of an identity outside the conversation
\* gets it.
C24_TypingToOthers == [][C24_Step]_vars

\* an identity typed on its socket and the open socket of a participant of
\* the conversation got the event
C24_Witness ==
    /\ last.op = "typing"
    /\ last.conn \in DOMAIN clients
    /\ \E c \in DOMAIN clients :
          /\ c # last.conn
          /\ clients[c].readyState = "OPEN"
          /\ clients[c].identityId \in Range(last.identityIds)
          /\ Sent(inbox, c) = <<last.payload>>

C25_Step ==
    (Notified /\ last'.op \in CallTypes) =>
        /\ Len(last'.identityIds) = 1
        /\ \A c \in Conns :
              Sent(inbox', c) # <<>> =>
                 /\ clients[c].identityId = last'.identityIds[1]
                 /\ Sent(inbox', c) = <<last'.payload>>
        /\ \A c \in DOMAIN clients :
              (clients[c].readyState = "OPEN"
                 /\ clients[c].identityId = last'.identityIds[1])
                    => Sent(inbox', c) = <<last'.payload>>
        /\ UNCHANGED <<dbVars, msgVars, online, clients>>

\* C25: a call request, accept, end or signal received on a socket is sent
\* to the open sockets of the one target identity it names and to no other
\* socket, and writes nothing to the store.
C25_CallUnicast == [][C25_Step]_vars

\* a call message reached its target while a socket of a third identity was
\* open and got nothing
C25_Witness ==
    /\ last.op \in CallTypes
    /\ last.conn \in DOMAIN clients
    /\ \E c \in DOMAIN clients :
          /\ clients[c].identityId = last.identityIds[1]
          /\ clients[c].identityId # clients[last.conn].identityId
          /\ Sent(inbox, c) = <<last.payload>>

(***************************************************************************)
(* SpecLogin: logins and role changes by an administrator, one at a time.  *)
(***************************************************************************)
\* roles an administrator gives
AssignedRoles == {"STAFF", "HOD", "SUPER_ADMIN"}

\* the users that log in: a student and the staff
LoginUsers ==
    {<<"student", MinOf(StudentIds)>>} \cup
    {<<"staff", e>> : e \in RequestEntityIds \cap StaffIds}

\* POST /api/admin/users/:id/role by a SUPER_ADMIN or VC
AdminSetRole(meId, identityId, role) ==
    /\ GetIdentity(Db, meId).role \in {"SUPER_ADMIN", "VC"}
    /\ identityId \in {i.id : i \in identities}
    /\ SetDb(UpdateUserRole(Db, identityId, role))
    /\ last' = [op |-> "setRole", entityType |-> "", entityId |-> NoId,
                status |-> "ok", id |-> identityId]
    /\ UNCHANGED <<opCount, calls, codec, msgVars, hubVars>>

NextLogin ==
    \/ \E u \in LoginUsers : ResolveLogin(u[1], u[2])
    \/ \E me \in 1..(nextIdentityId - 1), i \in 1..(nextIdentityId - 1),
          r \in AssignedRoles : AdminSetRole(me, i, r)

SpecLogin == InitResolve /\ [][NextLogin]_vars

C26_Step ==
    last'.op = "login" =>
        \A i \in identities :
            LET after == GetIdentity(Db', i.id)
            IN /\ after.id = i.id
               /\ after.role # i.role =>
                     /\ i.role # "SUPER_ADMIN"
                     /\ after.role = "SUPER_ADMIN"
                     /\ i.email \in SuperAdminEmails
                     /\ i.id = last'.id
               /\ [after EXCEPT !.role = i.role] = i

\* C26: a login changes the role of an existing identity only from a role
\* other than SUPER_ADMIN to SUPER_ADMIN, and only for the identity that
\* logs in with an address on the allow-list; every other identity and
\* every other column stays as it was.
C26_PromotionOneWay == [][C26_Step]_vars

\* an identity off the allow-list that an administrator had made
\* SUPER_ADMIN logged in and kept the role, and the allow-listed identity
\* was promoted by its login
C26_Witness ==
    /\ last.op = "login"
    /\ GetIdentity(Db, last.id).role = "SUPER_ADMIN"
    /\ GetIdentity(Db, last.id).email \notin SuperAdminEmails
    /\ \E i \in identities : i.email \in SuperAdminEmails /\ i.role = "SUPER_ADMIN"

(***************************************************************************)
(* AutoGroupService.syncStudent and syncStaff.  A matric number is the     *)
(* array its split('/') gives; the row a sync reads from students joined   *)
(* with student_academics is an input of the call.                         *)
(***************************************************************************)
NoMatric == <<>>

NoLevel == ""

NoCode == ""

\* rows of the departments table; the second is named by its own code
Departments ==
    {[code |-> "CSC", name |-> "Computer Science"], [code |-> "LAW", name |-> "LAW"]}

\* toUpperCase on the codes of the model
ToUpperCase(str) ==
    IF str = "csc" THEN "CSC" ELSE IF str = "law" THEN "LAW" ELSE str

\* AutoGroupService.getDeptCodeFromMatric
GetDeptCodeFromMatric(matricNo) ==
    IF matricNo = NoMatric THEN NoCode
    ELSE IF Len(matricNo) >= 2 THEN ToUpperCase(matricNo[2])
    ELSE NoCode

\* deptName: the department's name if the code is registered, else the code
DeptNameOf(deptCode) ==
    LET rows == {r \in Departments : r.code = deptCode}
    IN IF deptCode # NoCode /\ rows # {} THEN (CHOOSE r \in rows : TRUE).name
       ELSE deptCode

\* the (matricNo, level) a sync may read for a student that has a record
StudentData ==
    {[matricNo |-> <<"VUG", "CSC", "16", "1335">>, level |-> "300"],
     [matricNo |-> <<"VUG", "csc", "16", "1335">>, level |-> "400"],
     [matricNo |-> <<"VUG", "LAW", "16", "7">>, level |-> "300"],
     [matricNo |-> <<"VUG", "XYZ", "16", "7">>, level |-> "300"],
     [matricNo |-> <<"1335">>, level |-> "300"],
     [matricNo |-> NoMatric, level |-> "300"],
     [matricNo |-> <<"VUG", "CSC", "16", "1335">>, level |-> NoLevel]}

\* the groups without the combined one
StudentGroups_NoCombined(data) ==
    LET deptCode == GetDeptCodeFromMatric(data.matricNo)
        deptName == DeptNameOf(deptCode)
        levelGroup == <<data.level \o " Level", "level">>
        deptGroup == <<IF deptCode # NoCode /\ deptName # deptCode
                       THEN deptName \o " (" \o deptCode \o ")"
                       ELSE deptName, "department">>
    IN IF data.matricNo = NoMatric \/ data.level = NoLevel THEN <<>>
       ELSE IF deptName # NoCode THEN <<levelGroup, deptGroup>>
       ELSE <<levelGroup>>

\* the groups with the level group skipped too when there is no department
StudentGroups_AllOrNone(data) ==
    LET deptCode == GetDeptCodeFromMatric(data.matricNo)
        deptName == DeptNameOf(deptCode)
        levelGroup == <<data.level \o " Level", "level">>
        deptGroup == <<IF deptCode # NoCode /\ deptName # deptCode
                       THEN deptName \o " (" \o deptCode \o ")"
                       ELSE deptName, "department">>
        combinedGroup == <<data.level \o " Level " \o deptName, "combined">>
    IN IF data.matricNo = NoMatric \/ data.level = NoLevel THEN <<>>
       ELSE IF deptName # NoCode THEN <<levelGroup, deptGroup, combinedGroup>>
       ELSE <<>>

\* the groups syncStudent joins after "All Students", in order
StudentGroups(data) ==
    LET deptCode == GetDeptCodeFromMatric(data.matricNo)
        deptName == DeptNameOf(deptCode)
        levelGroup == <<data.level \o " Level", "level">>
        deptGroup == <<IF deptCode # NoCode /\ deptName # deptCode
                       THEN deptName \o " (" \o deptCode \o ")"
                       ELSE deptName, "department">>
        combinedGroup == <<data.level \o " Level " \o deptName, "combined">>
    IN IF data.matricNo = NoMatric \/ data.level = NoLevel THEN <<>>
       ELSE IF deptName # NoCode THEN <<levelGroup, deptGroup, combinedGroup>>
       ELSE <<levelGroup>>

RECURSIVE JoinAll(_, _, _)
\* await this.ensureGroupAndJoin(..) for each group in turn; a throw ends
\* the sync
JoinAll(d, groups, identityId) ==
    IF groups = <<>> THEN [status |-> "ok", db |-> d]
    ELSE LET r == EnsureGroupAndJoinHandler(d, groups[1][1], groups[1][2], identityId)
         IN IF r.status # "ok" THEN [status |-> "error", db |-> r.db]
            ELSE JoinAll(r.db, Tail(groups), identityId)

\* syncStaff with the staff record looked up before the identity is ensured
SyncStaffHandler_Checked(d, staffId) ==
    LET e == AutoGroupEnsureIdentity(d, "staff", staffId)
        groups == <<<<"All Staff", "global">>>>
        j == JoinAll(e.db, groups, e.id)
    IN IF ~RecordExists("staff", staffId)
       THEN [status |-> "notfound", id |-> NoId, db |-> d, joined |-> <<>>]
       ELSE IF e.status # "ok"
       THEN [status |-> "noidentity", id |-> NoId, db |-> e.db, joined |-> <<>>]
       ELSE [status |-> j.status, id |-> e.id, db |-> j.db, joined |-> groups]

\* AutoGroupService.syncStaff
SyncStaffHandler(d, staffId) ==
    LET e == AutoGroupEnsureIdentity(d, "staff", staffId)
        groups == <<<<"All Staff", "global">>>>
        j == JoinAll(e.db, groups, e.id)
    IN IF e.status # "ok"
       THEN [status |-> "noidentity", id |-> NoId, db |-> e.db, joined |-> <<>>]
       ELSE [status |-> j.status, id |-> e.id, db |-> j.db, joined |-> groups]

\* AutoGroupService.syncStudent; data is the row read in step 1
SyncStudentHandler(d, studentId, data) ==
    LET e == AutoGroupEnsureIdentity(d, "student", studentId)
        groups == <<<<"All Students", "global">>>> \o StudentGroups(data)
        j == JoinAll(e.db, groups, e.id)
    IN IF ~RecordExists("student", studentId)
       THEN [status |-> "notfound", id |-> NoId, db |-> d, joined |-> <<>>]
       ELSE IF e.status # "ok"
       THEN [status |-> "noidentity", id |-> NoId, db |-> e.db, joined |-> <<>>]
       ELSE [status |-> j.status, id |-> e.id, db |-> j.db, joined |-> groups]

(***************************************************************************)
(* SpecSync: syncs and provisioning calls, one at a time, from the empty   *)
(* store.                                                                  *)
(***************************************************************************)
\* an id no staff record has
MissingStaffId == MinOf({e \in 1..(Cardinality(StaffIds) + 1) : e \notin StaffIds})

SyncStaffIds == (RequestEntityIds \cap StaffIds) \cup {MissingStaffId}

RespondSync(op, entityType, entityId, data, r) ==
    /\ opCount < MaxOps
    /\ opCount' = opCount + 1
    /\ SetDb(r.db)
    /\ last' = [op |-> op, entityType |-> entityType, entityId |-> entityId,
                data |-> data, status |-> r.status, id |-> r.id,
                joined |-> r.joined,
                repeat |-> /\ last.op = op
                           /\ last.entityId = entityId
                           /\ last.data = data]
    /\ UNCHANGED <<calls, codec, msgVars, hubVars>>

SyncStudent(studentId, data) ==
    RespondSync("syncStudent", "student", studentId, data,
                SyncStudentHandler(Db, studentId, data))

SyncStaff(staffId) ==
    RespondSync("syncStaff", "staff", staffId, NoMatric, SyncStaffHandler(Db, staffId))

\* storage.ensureIdentity behind the provisioning route
SyncProvision(entityType, entityId) ==
    LET r == StorageEnsureIdentity(Db, entityType, entityId)
    IN RespondSync("storage", entityType, entityId, NoMatric,
                   [status |-> r.status, id |-> r.id, db |-> r.db, joined |-> <<>>])

InitSync ==
    /\ IdleDb
    /\ codec = NoCodec
    /\ NoMessages
    /\ NoHub

NextSync ==
    \/ \E e \in RequestEntityIds, data \in StudentData : SyncStudent(e, data)
    \/ \E e \in SyncStaffIds : SyncStaff(e)
    \/ \E t \in EntityTypes, e \in RequestEntityIds \cup {MissingStaffId} :
          SyncProvision(t, e)

SpecSync == InitSync /\ [][NextSync]_vars

C27_Step ==
    (/\ Handled
     /\ last'.op \in {"storage", "syncStaff", "syncStudent"}
     /\ ~RecordExists(last'.entityType, last'.entityId)
     /\ RowsOf(last'.entityType, last'.entityId) = {}) =>
        /\ identities' = identities
        /\ nextIdentityId' = nextIdentityId
        /\ last'.op = "storage" => last'.status = "notfound"
        /\ last'.id = NoId

\* C27: a provisioning call for an (entityType, entityId) that has no
\* student or staff record and no identity yet inserts no identity row and
\* returns no identity id, whether it comes through storage.ensureIdentity
\* (which fails with not-found), syncStaff or syncStudent.
C27_NoRecordNoIdentity == [][C27_Step]_vars

\* the (name, scope) of the groups the identity is a participant of
GroupsOf(d, identityId) ==
    {<<c.name, c.scope>> : c \in {x \in d.conversations :
                                     MemberCount(d, x.id, identityId) > 0}}

\* the department registered under the upper-cased second segment
RegisteredDept(matricNo) ==
    {r \in Departments : Len(matricNo) >= 2 /\ r.code = ToUpperCase(matricNo[2])}

\* the four groups of a student of this level and department
FourGroups(level, dept) ==
    <<<<"All Students", "global">>,
      <<level \o " Level", "level">>,
      <<dept.name \o " (" \o dept.code \o ")", "department">>,
      <<level \o " Level " \o dept.name, "combined">>>>

\* the sync joined these groups: each exists once and holds the identity once
JoinedOnce(d, groups, identityId) ==
    \A k \in 1..Len(groups) :
        /\ Cardinality(GroupRows(d, groups[k][1], groups[k][2])) = 1
        /\ \A c \in GroupRows(d, groups[k][1], groups[k][2]) :
              MemberCount(d, c.id, identityId) = 1

C28_OriginalStep ==
    (/\ Handled /\ last'.op = "syncStudent"
     /\ RecordExists("student", last'.entityId)
     /\ last'.data.level # NoLevel
     /\ RegisteredDept(last'.data.matricNo) # {}) =>
        LET dept == CHOOSE r \in RegisteredDept(last'.data.matricNo) : TRUE
            four == FourGroups(last'.data.level, dept)
        IN /\ last'.status = "ok"
           /\ last'.joined = four
           /\ JoinedOnce(Db', four, last'.id)
           /\ GroupsOf(Db', last'.id) = Range(four)
           /\ last'.repeat => ConversationUnchanged

\* C28 as stated: for a student with a level and a registered department
\* code the sync joins the four groups in order, the identity is then in
\* exactly these four groups, and a second sync adds nothing.
C28_SyncStudentExactlyFour == [][C28_OriginalStep]_vars

C28_Step ==
    (/\ Handled /\ last'.op = "syncStudent"
     /\ RecordExists("student", last'.entityId)
     /\ last'.data.level # NoLevel
     /\ \E r \in RegisteredDept(last'.data.matricNo) : r.name # r.code) =>
        LET dept == CHOOSE r \in RegisteredDept(last'.data.matricNo) : TRUE
            four == FourGroups(last'.data.level, dept)
        IN /\ last'.status = "ok"
           /\ last'.joined = four
           /\ JoinedOnce(Db', four, last'.id)
           /\ GroupsOf(Db', last'.id) = GroupsOf(Db, last'.id) \cup Range(four)
           /\ GroupsOf(Db, last'.id) = {} => GroupsOf(Db', last'.id) = Range(four)
           /\ last'.repeat => ConversationUnchanged

\* C28: for a student with a level and a matric whose second segment is the
\* code of a registered department named otherwise than by its code, the
\* sync joins "All Students", "{level} Level", "{deptName} ({deptCode})" and
\* "{level} Level {deptName}" in this order; the identity is then in these
\* four groups besides the groups it was in before (exactly these four if
\* it was in none), and a second sync adds no conversation and no
\* participant row.
C28_SyncStudentFour == [][C28_Step]_vars

\* the student of level 300 in CSC was synced twice and is in four groups
C28_Witness ==
    /\ last.op = "syncStudent" /\ last.repeat /\ last.status = "ok"
    /\ last.joined = FourGroups("300", [code |-> "CSC", name |-> "Computer Science"])
    /\ GroupsOf(Db, last.id) = Range(last.joined)
    /\ JoinedOnce(Db, last.joined, last.id)

C29_Step ==
    (/\ Handled /\ last'.op = "syncStudent"
     /\ RecordExists("student", last'.entityId)
     /\ \/ last'.data.level = NoLevel
        \/ GetDeptCodeFromMatric(last'.data.matricNo) = NoCode) =>
        /\ last'.status = "ok"
        /\ last'.joined = <<<<"All Students", "global">>>>
        /\ JoinedOnce(Db', last'.joined, last'.id)
        /\ GroupsOf(Db', last'.id) = GroupsOf(Db, last'.id) \cup Range(last'.joined)

\* C29: when the level is missing or the matric has no parseable department
\* code, the sync of a student joins "All Students" and no other group and
\* ends without an error.
C29_SyncDegrades == [][C29_Step]_vars

(***************************************************************************)
(* SpecForbidden: the handlers that can refuse a request for want of       *)
(* permission, one request at a time as time passes, from RolesStore with  *)
(* the first student's message.                                            *)
(***************************************************************************)
\* a member, the group's admin and a system admin outside the group
ForbiddenActors == {Student1, Staff1, Hod2}

\* the clock passes the end of the edit window
LateTick ==
    /\ now = 0
    /\ now' = EditWindowMs + OneSecond
    /\ UNCHANGED <<dbVars, last, opCount, calls, codec, messages, nextMessageId,
                   updatedAt, hubVars>>

NextForbidden ==
    \/ \E me \in ForbiddenActors, t \in ForbiddenActors : CreateDirect(me, t)
    \/ \E me \in ForbiddenActors, c \in ConversationIds, t \in ForbiddenActors :
          AddParticipant(me, c, t)
    \/ \E me \in ForbiddenActors, c \in ConversationIds, t \in ForbiddenActors :
          RemoveParticipant(me, c, t)
    \/ \E me \in ForbiddenActors, c \in ConversationIds, t \in ForbiddenActors :
          ChangeRole(me, c, t, "co-admin")
    \/ \E me \in ForbiddenActors, c \in ConversationIds, t \in ForbiddenActors :
          UpdateRole(me, c, t, "co-admin")
    \/ \E me \in ForbiddenActors, c \in ConversationIds, content \in EditContents :
          CreateMessage(me, c, content)
    \/ \E me \in ForbiddenActors, x \in MessageIds, content \in EditContents :
          EditMessage(me, x, content)
    \/ \E me \in ForbiddenActors, x \in MessageIds : DeleteMessage(me, x)
    \/ LateTick

SpecForbidden == InitSearch /\ [][NextForbidden]_vars

PermissionChecked ==
    {"createDirect", "addParticipant", "removeParticipant", "changeRole",
     "updateRole", "createMessage", "editMessage", "deleteMessage"}

C30_Step ==
    (Handled /\ last'.op \in PermissionChecked /\ last'.status = "forbidden") =>
        /\ conversations' = conversations
        /\ nextConversationId' = nextConversationId
        /\ participants' = participants
        /\ messages' = messages
        /\ nextMessageId' = nextMessageId
        /\ updatedAt' = updatedAt

\* C30: whenever createDirect, addParticipant, removeParticipant, a change
\* of a participant's role, createMessage, editMessage or deleteMessage
\* answers Forbidden, the conversations, the participant rows with their
\* roles and the messages are as they were before the request.
C30_ForbiddenChangesNothing == [][C30_Step]_vars

\* a member that may not delete another's message was refused after the
\* sender's own edit had been refused as too late
C30_Witness ==
    /\ last.op = "deleteMessage" /\ last.status = "forbidden"
    /\ last.sender # last.actor
    /\ GetMessage(Ms, last.messageId).id = last.messageId
    /\ now > EditWindowMs

(***************************************************************************)
(* SpecStore: every handler that writes conversations, participants or     *)
(* messages, one request at a time, from RolesStore with the first         *)
(* student's message after an administrator made the second staff member  *)
(* VC.  Requests name the existing identities, the virtual id of a staff   *)
(* member that has a record and no identity row, and a positive id that    *)
(* no identity row carries.                                                *)
(***************************************************************************)
\* storage.deleteGroup: the messages, the participants and the row of the
\* conversation (with its updatedAt column), in this order
StorageDeleteGroup(d, m, id) ==
    LET keep == {r \in BagToSet(d.participants) : r.conversationId # id}
    IN [db |-> [d EXCEPT
                  !.participants =
                      IF keep = {} THEN EmptyBag
                      ELSE [r \in keep |-> d.participants[r]],
                  !.conversations = {c \in @ : c.id # id}],
        ms |-> [m EXCEPT
                  !.messages = {x \in @ : x.conversationId # id},
                  !.updatedAt = [c \in DOMAIN @ \ {id} |-> @[c]]]]

\* roles the admin routes accept
AdminRouteRoles == {"SUPER_ADMIN", "VC"}

\* DELETE /api/admin/groups/:id
DeleteGroupHandler(d, m, meId, id) ==
    LET me == GetIdentity(d, meId)
        del == StorageDeleteGroup(d, m, id)
    IN IF me.id = NoId \/ me.role \notin AdminRouteRoles
       THEN [status |-> "forbidden", db |-> d, ms |-> m]
       ELSE [status |-> "ok", db |-> del.db, ms |-> del.ms]

StoreSeed == UpdateUserRole(RolesStore, Hod2, "VC")

InitStore == StoreWithMessage(StoreSeed)

\* a staff member with a record and no identity row, by its virtual id
UnprovisionedStaff ==
    EncodeVirtualId("staff",
        MinOf({e \in StaffIds : SelectIdentityByEntity(StoreSeed, "staff", e).id = NoId}))

\* identity ids a request may name
StoreTargets == Actors \cup {UnprovisionedStaff, nextIdentityId}

\* role of the body of the /role entry point: z.string()
RoleStrings == ParticipantRoles \cup {"owner"}

DeleteGroup(me, id) ==
    LET r == DeleteGroupHandler(Db, Ms, me, id)
    IN /\ opCount < MaxOps
       /\ opCount' = opCount + 1
       /\ SetDb(r.db)
       /\ SetMs(r.ms)
       /\ last' = [op |-> "deleteGroup", actor |-> me, conversationId |-> id,
                   target |-> NoId, status |-> r.status, addedBy |-> NoId,
                   repeat |-> FALSE]
       /\ UNCHANGED <<now, calls, codec, hubVars>>

NextStore ==
    \/ \E me \in Actors, t \in StoreTargets : CreateDirect(me, t)
    \/ \E me \in Actors, n \in PrivateGroupNames,
          pids \in {<<>>} \cup {<<t>> : t \in StoreTargets} : CreateGroup(me, n, pids)
    \/ \E me \in Actors, c \in ConversationIds, t \in StoreTargets :
          AddParticipant(me, c, t)
    \/ \E me \in Actors, c \in ConversationIds, t \in Actors :
          RemoveParticipant(me, c, t)
    \/ \E g \in AutoGroups, i \in Actors : EnsureGroupAndJoin(g[1], g[2], i)
    \/ \E me \in Actors, c \in ConversationIds : DeleteGroup(me, c)
    \/ \E me \in Actors, c \in ConversationIds, t \in Actors,
          role \in ParticipantRoles : ChangeRole(me, c, t, role)
    \/ \E me \in Actors, c \in ConversationIds, t \in Actors,
          role \in RoleStrings : UpdateRole(me, c, t, role)
    \/ \E me \in Actors, c \in ConversationIds, content \in EditContents :
          CreateMessage(me, c, content)

SpecStore == InitStore /\ [][NextStore]_vars

\* the participant rows that name no conversation or no identity of the store
DanglingRows(d) ==
    {r \in BagToSet(d.participants) :
        \/ GetConversation(d, r.conversationId).id = NoId
        \/ GetIdentity(d, r.identityId).id = NoId}

\* C31: in every reachable state each participant row names a conversation
\* that exists and an identity that exists.
C31_ReferentialIntegrity == DanglingRows(Db) = {}

\* C32: in every reachable state the role of each participant row is one
\* of member, admin, co-admin.
C32_ParticipantRoleDomain ==
    \A r \in BagToSet(participants) : r.role \in ParticipantRoles

(***************************************************************************)
(* SpecRows: the handlers that insert, update or delete one participant    *)
(* row, one request at a time, from RolesStore.                            *)
(***************************************************************************)
NextRows ==
    \/ \E me \in Actors, c \in ConversationIds, t \in Actors : AddParticipant(me, c, t)
    \/ \E me \in Actors, c \in ConversationIds, t \in Actors :
          RemoveParticipant(me, c, t)
    \/ \E me \in Actors, c \in ConversationIds, t \in Actors,
          role \in ParticipantRoles : ChangeRole(me, c, t, role)
    \/ \E me \in Actors, c \in ConversationIds, t \in Actors,
          role \in ParticipantRoles : UpdateRole(me, c, t, role)

SpecRows == InitRoles /\ [][NextRows]_vars

\* the addedByIdentityId of the rows, by (conversationId, identityId)
AddedBy(d) ==
    {<<r.conversationId, r.identityId, r.addedByIdentityId>> :
        r \in BagToSet(d.participants)}

C33_Step ==
    \A old \in AddedBy(Db), new \in AddedBy(Db') :
        (old[1] = new[1] /\ old[2] = new[2]) => old[3] = new[3]

\* C33: no request changes the addedByIdentityId of a participant row that
\* exists before and after it; a (conversationId, identityId) gets another
\* addedByIdentityId only through a removal and a later insert.
C33_AddedByFixed == [][C33_Step]_vars

\* a role change has given the row of a member another role, and the row
\* still names the staff member who added it
C33_Witness ==
    /\ last.op \in {"changeRole", "updateRole"}
    /\ last.status = "ok"
    /\ LET before == GetParticipant(RolesStore, last.conversationId, last.target[1])
           after == GetParticipant(Db, last.conversationId, last.target[1])
       IN /\ before.conversationId # NoId
          /\ after.role # before.role
          /\ after.addedByIdentityId = Staff1
          /\ last.target[1] # Staff1

(***************************************************************************)
(* SpecDeliver: POST messages.create with its notifyList call, while       *)
(* accepted sockets start closing, over RolesStore.  A send on an open     *)
(* socket may fail: the socket in `broken` gets nothing.  client.send is   *)
(* called without a callback and its result is not read.                   *)
(***************************************************************************)
\* the handler that answers only when every send went through
CreateMessageRoute_AwaitSends(d, m, t, cl, broken, meId, conversationId, content) ==
    LET r == CreateMessageHandler(d, m, t, meId, conversationId, content)
        sends == IF r.status = "ok"
                 THEN NotifyList(cl, SeqOf(r.events[1].recipientIds), r.events[1])
                 ELSE <<>>
        failed == DOMAIN sends \cap broken
    IN [status |-> IF failed # {} THEN "error" ELSE r.status,
        reason |-> r.reason, ms |-> r.ms, messageId |-> r.messageId,
        events |-> r.events,
        sent |-> [c \in DOMAIN sends \ broken |-> sends[c]]]

\* POST messages.create with the sends of its notifyList call; `sent` is
\* what reached each connection
CreateMessageRoute(d, m, t, cl, broken, meId, conversationId, content) ==
    LET r == CreateMessageHandler(d, m, t, meId, conversationId, content)
        sends == IF r.status = "ok"
                 THEN NotifyList(cl, SeqOf(r.events[1].recipientIds), r.events[1])
                 ELSE <<>>
    IN [status |-> r.status, reason |-> r.reason, ms |-> r.ms,
        messageId |-> r.messageId, events |-> r.events,
        sent |-> [c \in DOMAIN sends \ broken |-> sends[c]]]

DeliverActors == {Student1, Hod2}

RouteCreateMessage(me, conversationId, content, broken) ==
    LET r == CreateMessageRoute(Db, Ms, now, clients, broken, me, conversationId,
                                content)
    IN /\ opCount < MaxOps
       /\ opCount' = opCount + 1
       /\ SetMs(r.ms)
       /\ inbox' = r.sent
       /\ last' = [op |-> "createMessage", actor |-> me,
                   conversationId |-> conversationId, messageId |-> r.messageId,
                   status |-> r.status, reason |-> r.reason, broken |-> broken,
                   events |-> r.events]
       /\ UNCHANGED <<dbVars, now, calls, codec, clients, online>>

NextDeliver ==
    \/ \E c \in Conns : HubClosing(c)
    \/ \E me \in DeliverActors, broken \in SUBSET Conns :
          RouteCreateMessage(me, RolesGroup, <<"a">>, broken)

SpecDeliver == InitHub /\ [][NextDeliver]_vars

\* the connections a notifyList call for the conversation would write to
Targeted(cl, d, conversationId) ==
    {c \in DOMAIN cl : /\ cl[c].readyState = "OPEN"
                       /\ cl[c].identityId \in GetParticipantIds(d, conversationId)}

C34_Step ==
    (Handled /\ last'.op = "createMessage") =>
        LET isMember ==
                GetParticipant(Db, last'.conversationId, last'.actor).conversationId # NoId
        IN IF isMember
           THEN /\ last'.status = "ok"
                /\ GetMessage(Ms', last'.messageId).id = last'.messageId
                /\ GetMessage(Ms', last'.messageId).senderIdentityId = last'.actor
                /\ last'.messageId \notin {x.id : x \in messages}
                /\ DOMAIN inbox' = Targeted(clients, Db, last'.conversationId) \ last'.broken
           ELSE /\ last'.status = "forbidden"
                /\ MessagesUnchanged
                /\ inbox' = <<>>

C34_WitnessNone ==
    /\ last.op = "createMessage"
    /\ last.status = "ok"
    /\ Targeted(clients, Db, last.conversationId) # {}
    /\ DOMAIN inbox = {}

(***************************************************************************)
(* SpecVirtual: the handlers that insert participant rows or messages,     *)
(* called with target ids that are not positive, one request at a time,    *)
(* from the store of SpecStore.                                            *)
(***************************************************************************)
VirtualActors == {Student1, Staff1}

\* the virtual ids of a staff member without identity row and of a student
\* without record, and the id 0
VirtualTargets ==
    {UnprovisionedStaff,
     EncodeVirtualId("student",
         MinOf({e \in RequestEntityIds : ~RecordExists("student", e)})),
     NoId}

NextVirtual ==
    \/ \E me \in VirtualActors, t \in VirtualTargets : CreateDirect(me, t)
    \/ \E me \in VirtualActors, n \in PrivateGroupNames,
          pids \in {<<t>> : t \in VirtualTargets} : CreateGroup(me, n, pids)
    \/ \E me \in VirtualActors, c \in ConversationIds, t \in VirtualTargets :
          AddParticipant(me, c, t)
    \/ \E me \in VirtualActors, c \in ConversationIds, content \in EditContents :
          CreateMessage(me, c, content)

SpecVirtual == InitStore /\ [][NextVirtual]_vars

\* C35: in every reachable state the identityId of every participant row
\* and the senderIdentityId of every message is a positive id.
C35_NoVirtualIdStored ==
    /\ \A r \in BagToSet(participants) : r.identityId > 0
    /\ \A x \in messages : x.senderIdentityId > 0

\* a request that named a staff member by its virtual id was accepted: the
\* staff member has an identity row now and the new participant row names it
C35_Witness ==
    /\ last.op \in {"addParticipant", "createDirect"}
    /\ last.status = "ok"
    /\ last.target = UnprovisionedStaff
    /\ \E i \in identities :
          /\ EncodeVirtualId(i.entityType, i.entityId) = last.target
          /\ i \notin StoreSeed.identities
          /\ GetParticipant(Db, last.conversationId, i.id).conversationId # NoId

(***************************************************************************)
(* DIRECT conversations under Spec                                         *)
(***************************************************************************)
DirectIds(d) == {c.id : c \in {x \in d.conversations : x.type = "DIRECT"}}

MemberIds(d, conversationId) == {r.identityId : r \in MembersOf(d, conversationId)}

\* the participant rows of a conversation, counted with their repetitions
RowCount(d, conversationId) ==
    LET rows == MembersOf(d, conversationId)
    IN IF rows = {} THEN 0
       ELSE BagCardinality([r \in rows |-> d.participants[r]])

C36_Step ==
    /\ \A c \in DirectIds(Db) :
          /\ MemberIds(Db', c) \subseteq MemberIds(Db, c)
          /\ RowCount(Db', c) <= RowCount(Db, c)
    /\ \A c \in DirectIds(Db') \ DirectIds(Db) :
          /\ last'.op = "createDirect"
          /\ MemberIds(Db', c) \subseteq
                {last'.actor, ResolvedIdentity(Db', last'.target).id}
          /\ RowCount(Db', c) <= 2

\* C36: a DIRECT conversation is created by createDirect with no other
\* participants than the actor and the target, at most two rows, and no
\* request adds a participant or a row to it afterwards: its participants
\* stay a subset of the pair it was created for.
C36_DirectPairOnly == [][C36_Step]_vars

\* a participant of a DIRECT conversation asked to add a third identity to
\* it and was refused
C36_Witness ==
    /\ last.op = "addParticipant"
    /\ last.status = "badrequest"
    /\ last.conversationId \in DirectIds(Db)
    /\ last.actor \in MemberIds(Db, last.conversationId)
    /\ last.target > 0
    /\ last.target \notin MemberIds(Db, last.conversationId)
    /\ Cardinality(MemberIds(Db, last.conversationId)) = 2

(***************************************************************************)
(* Groups of students under SpecStore                                      *)
(***************************************************************************)
PrivateGroupIds(d) ==
    {c.id : c \in {x \in d.conversations : x.type = "GROUP" /\ x.scope = "PRIVATE"}}

\* the participants of a conversation whose identity has another role than
\* STUDENT
NonStudents(d, conversationId) ==
    {i \in MemberIds(d, conversationId) :
        /\ GetIdentity(d, i).id # NoId
        /\ GetIdentity(d, i).role # "STUDENT"}

C37_Step ==
    /\ (/\ Handled
        /\ last'.op = "createGroup"
        /\ last'.status = "ok"
        /\ GetIdentity(Db, last'.actor).role = "STUDENT")
          => NonStudents(Db', last'.conversationId) = {}
    /\ \A i \in identities : GetIdentity(Db', i.id) = i
    /\ \A c \in PrivateGroupIds(Db) :
          NonStudents(Db, c) = {} => NonStudents(Db', c) = {}

\* C37: identity rows are never changed by the handlers of the store, a
\* group created by a STUDENT has no participant whose identity has
\* another role, and no request gives a private group without such
\* participants one: a group a STUDENT created never has a participant
\* whose identity has another role than STUDENT.
C37_StudentGroupStudentsOnly == [][C37_Step]_vars

(***************************************************************************)
(* Typing events of identities outside the conversation, under SpecHub     *)
(***************************************************************************)
C38_Step ==
    (/\ Notified
     /\ last'.op = "typing"
     /\ GetParticipant(Db, last'.payload.conversationId,
                       last'.payload.from).conversationId = NoId)
        => \A c \in Conns : Sent(inbox', c) = <<>>

\* C38: a typing event of a connection whose identity is no participant of
\* the conversation it names is delivered to nobody.
C38_TypingFromParticipantsOnly == [][C38_Step]_vars

(***************************************************************************)
(* Presence at rest, under SpecPresence                                    *)
(***************************************************************************)
\* the sockets the hub accepted for identity i
SocketsOf(i) == {c \in DOMAIN clients : clients[c].identityId = i}

\* C39: when every socket of an identity is closed and its connection and
\* close handlers have run to their end, the identity is marked offline.
C39_OfflineAtRest ==
    \A i \in PresenceIdentities :
        (\A c \in SocketsOf(i) :
            clients[c].readyState = "CLOSED" /\ clients[c].pc = "done")
          => ~online[i]

\* C40: a createDirect or addParticipant request that is answered Forbidden
\* inserts no identity row: the identities are the same before and after it
C40_Step ==
    (Handled /\ last'.op \in {"createDirect", "addParticipant"}
             /\ last'.status = "forbidden")
        => (identities' = identities /\ nextIdentityId' = nextIdentityId)
C40_ForbiddenProvisionsNothing == [][C40_Step]_vars

============================================================================
